---------------------------- MODULE Spec2Model ----------------------------
(***************************************************************************)
(* Observability dashboard: the subscriber distribution fabric.            *)
(*                                                                         *)
(* The fabric is app/core/connection_manager.py (ConnectionManager), the   *)
(* filter predicate is app/models/filters.py (FilterCriteria), a           *)
(* subscriber is one run of app/api/routes/websockets.py                   *)
(* (websocket_endpoint) and a publisher is one ingress request running     *)
(* app/api/routes/traces.py (receive_traces / distribute_events).          *)
(*                                                                         *)
(* Scheduling is asyncio's: one task runs at a time and gives way only at  *)
(* an await that really suspends.  Awaiting a coroutine of the program     *)
(* (connect, send_message, distribute_events) does not suspend by itself;  *)
(* the suspension points are the transport calls: websocket.accept(),      *)
(* websocket.send_text(), websocket.receive_text() and request.body().     *)
(* Each action below is one task running from one suspension to the next.  *)
(*                                                                         *)
(* A sink transmits frames in the order send_text was called on it; the    *)
(* call returns (or raises) at a later step.                               *)
(***************************************************************************)
EXTENDS Integers, Sequences, FiniteSets

\* ------------------------------------------------------------------ bounds

NumSinks == 2        \* WebSocket objects (each is connected at most once)
NumRequests == 2     \* concurrent POST /v1/traces requests
MaxBatch == 2        \* most events preprocess_spans returns for one request
MaxEvents == 3       \* most events published by all requests together

Sinks == 1..NumSinks
Requests == 1..NumRequests

\* ------------------------------------------------------------------ values

None == "None"

\* A CommunicationEvent, reduced to the two header fields filters read.
EventSet ==
    { [conversation_id |-> "c1", workforce_name |-> None],
      [conversation_id |-> "c2", workforce_name |-> "w1"] }

\* FilterCriteria(conversation_id, workforce), both None by default.
FilterCriteria(c, w) == [conversation_id |-> c, workforce |-> w]

FilterSet ==
    { FilterCriteria(None, None),
      FilterCriteria("c1", None) }

\* The lists preprocess_spans can hand to distribute_events (non-empty ones;
\* an empty list is answered without publishing).
Batches == UNION { [1..n -> EventSet] : n \in 1..MaxBatch }

\* An event publication is named by its request and its place in the
\* request's list; the welcome frame has a name of its own.
Tags == Requests \X (1..MaxBatch)
Welcome == <<0, 0>>

\* The close code of `await websocket.close(code=4500, ...)`.
CloseInternalError == 4500

\* ------------------------------------------------------------ FilterCriteria

MatchesIgnoringConversation(fc, event) ==
    ~(fc.workforce # None /\ event.workforce_name # fc.workforce)

\* FilterCriteria.matches
Matches(fc, event) ==
    IF fc.conversation_id # None /\ event.conversation_id # fc.conversation_id
    THEN FALSE
    ELSE IF fc.workforce # None /\ event.workforce_name # fc.workforce
    THEN FALSE
    ELSE TRUE

\* FilterCriteria.is_empty
is_empty(fc) == fc.conversation_id = None /\ fc.workforce = None

\* ------------------------------------------------------------------ state

VARIABLES
    connections,   \* ConnectionManager.connections: list of (websocket, filter)
    wpc,           \* per sink: where its websocket_endpoint task stands
    filt,          \* per sink: the FilterCriteria parsed from its query
    sink,          \* per sink: the client side ("up", "stalled", "down")
    received,      \* per sink: the frames transmitted to it, in order
    rpc,           \* per request: where its receive_traces task stands
    batch,         \* per request: the events preprocess_spans returned
    idx,           \* per request: distribute_events' loop position
    iterList,      \* per request: the list object send_message iterates
    shared,        \* per request: iterList is still self.connections
    pos,           \* per request: the list iterator's position
    websocket,     \* per request: the loop variable, the sink being sent to
    sendRes,       \* per request: how the suspended send_text will end
    disconnected,  \* per request: send_message's local list of failed sinks
    closeCode,     \* per sink: the code the server closed it with, 0 if none
    welcome,       \* per sink: how the welcome step ended ("sent", "failed")
    removals,      \* history, per sink: disconnect calls that removed its entry
    log,           \* history: enter / return of every send_message call
    subsAtEntry,   \* history, per call: the sinks subscribed at entry
    present,       \* history, per call: sinks subscribed from entry to return
    attempts,      \* history, per call: the sinks send_text was called on
    staleSends,    \* history, per call: sinks sent to after their disconnect
    failedTo,      \* history, per call: the sinks whose send raised
    inFlight,      \* history, per sink: calls in progress when it connected
    churn,         \* history, per call: connect/disconnect ran during it
    nullDisc       \* history, per sink: disconnect ran while it was absent

fabricVars == << connections, wpc, filt, sink, received, rpc, batch, idx, iterList,
           shared, pos, websocket, sendRes, disconnected, closeCode, welcome,
           log, subsAtEntry, present, attempts, failedTo, inFlight, churn,
           nullDisc, removals, staleSends >>

sinkVars == << wpc, filt, sink, closeCode, welcome >>
histVars == << log, subsAtEntry, present, attempts, failedTo, inFlight, churn,
               nullDisc, removals, staleSends >>


\* --------------------------------------------- conversation-path endpoint
\*
\* backend/src/agent_monitor/api/routes/websockets.py: /ws/{conversation_id}
\* with one ConnectionManager object per conversation id.  A manager object
\* is named by the order of its creation.

\* The length of a string the UUID4 pattern matches.
Uuid4Len == 36

\* The close code of `await websocket.close(code=4400, ...)`.
CloseInvalidRequest == 4400

Uuid4Sample == "1d1046f4-20da-4bed-9cc3-285d32292851"

\* The conversation ids a client may ask for, in the path or in the query.
ConvIdSet ==
    { Uuid4Sample,
      "1d1046f4-20da-4bed-9cc3-285d32292851\n",
      "1D1046F4-20DA-4BED-9CC3-285D32292851",
      "abc-123" }

\* sys.int_info.default_max_str_digits: int() of a longer decimal text
\* raises ValueError.
MaxStrDigits == 4300

\* The decimal text of MaxStrDigits + 1 digits 1, named by its pattern.
LongDigits == "111...1 (4301 digits)"
\* the JSON object with that integer as the value of its one member
LongFrame == "{\"a\": 111...1 (4301 digits)}"

\* A str as the sequence of its characters.
Chars(str) ==
    CASE  str = "1d1046f4-20da-4bed-9cc3-285d32292851" ->
          << "1", "d", "1", "0", "4", "6", "f", "4", "-", "2", "0", "d",
             "a", "-", "4", "b", "e", "d", "-", "9", "c", "c", "3", "-",
             "2", "8", "5", "d", "3", "2", "2", "9", "2", "8", "5", "1" >>
      [] str = "1d1046f4-20da-4bed-9cc3-285d32292851\n" ->
          << "1", "d", "1", "0", "4", "6", "f", "4", "-", "2", "0", "d",
             "a", "-", "4", "b", "e", "d", "-", "9", "c", "c", "3", "-",
             "2", "8", "5", "d", "3", "2", "2", "9", "2", "8", "5", "1",
             "\n" >>
      [] str = "1D1046F4-20DA-4BED-9CC3-285D32292851" ->
          << "1", "D", "1", "0", "4", "6", "F", "4", "-", "2", "0", "D",
             "A", "-", "4", "B", "E", "D", "-", "9", "C", "C", "3", "-",
             "2", "8", "5", "D", "3", "2", "2", "9", "2", "8", "5", "1" >>
      [] str = "abc-123" ->
          << "a", "b", "c", "-", "1", "2", "3" >>
      [] str = "c1" -> << "c", "1" >>
      [] str = "c10" -> << "c", "1", "0" >>
      [] str = "c2" -> << "c", "2" >>
      [] str = "w1" -> << "w", "1" >>
      [] str = "W2" -> << "W", "2" >>
      [] str = "before_agent" ->
          << "b", "e", "f", "o", "r", "e", "_", "a", "g", "e", "n", "t" >>
      [] str = "before_model" ->
          << "b", "e", "f", "o", "r", "e", "_", "m", "o", "d", "e", "l" >>
      [] str = "before_llm" ->
          << "b", "e", "f", "o", "r", "e", "_", "l", "l", "m" >>
      [] str = "after_model" ->
          << "a", "f", "t", "e", "r", "_", "m", "o", "d", "e", "l" >>
      [] str = "after_llm" ->
          << "a", "f", "t", "e", "r", "_", "l", "l", "m" >>
      [] str = "on_model_error" ->
          << "o", "n", "_", "m", "o", "d", "e", "l", "_", "e", "r", "r",
             "o", "r" >>
      [] str = "before_tool" ->
          << "b", "e", "f", "o", "r", "e", "_", "t", "o", "o", "l" >>
      [] str = "after_tool" ->
          << "a", "f", "t", "e", "r", "_", "t", "o", "o", "l" >>
      [] str = "on_tool_error" ->
          << "o", "n", "_", "t", "o", "o", "l", "_", "e", "r", "r", "o",
             "r" >>
      [] str = "after_agent" ->
          << "a", "f", "t", "e", "r", "_", "a", "g", "e", "n", "t" >>
      [] str = "AFTER_TOOL" ->
          << "A", "F", "T", "E", "R", "_", "T", "O", "O", "L" >>
      [] str = "cleanup" ->
          << "c", "l", "e", "a", "n", "u", "p" >>
      [] str = "tool_name" ->
          << "t", "o", "o", "l", "_", "n", "a", "m", "e" >>
      [] str = "invocation_id" ->
          << "i", "n", "v", "o", "c", "a", "t", "i", "o", "n", "_", "i",
             "d" >>
      [] str = "model" ->
          << "m", "o", "d", "e", "l" >>
      [] str = "error" ->
          << "e", "r", "r", "o", "r" >>
      [] str = "agent_communication_dashboard" ->
          << "a", "g", "e", "n", "t", "_", "c", "o", "m", "m", "u", "n",
             "i", "c", "a", "t", "i", "o", "n", "_", "d", "a", "s", "h",
             "b", "o", "a", "r", "d" >>
      [] str = "conversation_id" ->
          << "c", "o", "n", "v", "e", "r", "s", "a", "t", "i", "o", "n",
             "_", "i", "d" >>
      [] str = "agent_name" ->
          << "a", "g", "e", "n", "t", "_", "n", "a", "m", "e" >>
      [] str = "args.request" ->
          << "a", "r", "g", "s", ".", "r", "e", "q", "u", "e", "s", "t" >>
      [] str = "args.city" ->
          << "a", "r", "g", "s", ".", "c", "i", "t", "y" >>
      [] str = "args.agent_name" ->
          << "a", "r", "g", "s", ".", "a", "g", "e", "n", "t", "_", "n",
             "a", "m", "e" >>
      [] str = "args." ->
          << "a", "r", "g", "s", "." >>
      [] str = "tool_response.text" ->
          << "t", "o", "o", "l", "_", "r", "e", "s", "p", "o", "n", "s",
             "e", ".", "t", "e", "x", "t" >>
      [] str = "tool_response.status" ->
          << "t", "o", "o", "l", "_", "r", "e", "s", "p", "o", "n", "s",
             "e", ".", "s", "t", "a", "t", "u", "s" >>
      [] str = "tool_response.result.text" ->
          << "t", "o", "o", "l", "_", "r", "e", "s", "p", "o", "n", "s",
             "e", ".", "r", "e", "s", "u", "l", "t", ".", "t", "e", "x",
             "t" >>
      [] str = "request" ->
          << "r", "e", "q", "u", "e", "s", "t" >>
      [] str = "city" ->
          << "c", "i", "t", "y" >>
      [] str = "text" ->
          << "t", "e", "x", "t" >>
      [] str = "status" ->
          << "s", "t", "a", "t", "u", "s" >>
      [] str = "{\"a\": 1}" ->
          << "{", "\"", "a", "\"", ":", " ", "1", "}" >>
      [] str = "[1, 2]" ->
          << "[", "1", ",", " ", "2", "]" >>
      [] str = "\"ok\"" ->
          << "\"", "o", "k", "\"" >>
      [] str = "7" ->
          << "7" >>
      [] str = "done" ->
          << "d", "o", "n", "e" >>
      [] str = "{\"a\": 1" ->
          << "{", "\"", "a", "\"", ":", " ", "1" >>
      [] str = " null " ->
          << " ", "n", "u", "l", "l", " " >>
      [] str = "7 7" ->
          << "7", " ", "7" >>
      [] str = "ok" ->
          << "o", "k" >>
      [] str = "null" ->
          << "n", "u", "l", "l" >>
      [] str = "200" ->
          << "2", "0", "0" >>
      [] str = "tool_response." ->
          << "t", "o", "o", "l", "_", "r", "e", "s", "p", "o", "n", "s",
             "e", "." >>
      [] str = LongDigits -> [ i \in 1..(MaxStrDigits + 1) |-> "1" ]
      [] str = "application/json" ->
          << "a", "p", "p", "l", "i", "c", "a", "t", "i", "o", "n", "/", "j", "s", "o", "n" >>
      [] str = "application/x-protobuf" ->
          << "a", "p", "p", "l", "i", "c", "a", "t", "i", "o", "n", "/", "x", "-", "p", "r", "o", "t", "o", "b", "u", "f" >>
      [] str = "gzip" ->
          << "g", "z", "i", "p" >>
      [] str = "GZIP" ->
          << "G", "Z", "I", "P" >>
      [] str = "identity" ->
          << "i", "d", "e", "n", "t", "i", "t", "y" >>
      [] str = "Application/JSON; charset=utf-8" ->
          << "A", "p", "p", "l", "i", "c", "a", "t", "i", "o", "n", "/", "J", "S", "O", "N", ";", " ", "c", "h", "a", "r", "s", "e", "t", "=", "u", "t", "f", "-", "8" >>
      [] str = "text/plain" ->
          << "t", "e", "x", "t", "/", "p", "l", "a", "i", "n" >>
      [] str = "ping" ->
          << "p", "i", "n", "g" >>
      [] str = "{\"type\": \"update_filter\"}" ->
          << "{", "\"", "t", "y", "p", "e", "\"", ":", " ", "\"", "u", "p", "d", "a", "t", "e", "_", "f", "i", "l", "t", "e", "r", "\"", "}" >>
      [] str = LongFrame ->
          << "{", "\"", "a", "\"", ":", " " >>
             \o [ i \in 1..(MaxStrDigits + 1) |-> "1" ] \o << "}" >>
      [] str = "llm_request" ->
          << "l", "l", "m", "_", "r", "e", "q", "u", "e", "s", "t" >>
      [] str = "llm_response" ->
          << "l", "l", "m", "_", "r", "e", "s", "p", "o", "n", "s", "e" >>
      [] str = "content" ->
          << "c", "o", "n", "t", "e", "n", "t" >>
      [] str = "parts" ->
          << "p", "a", "r", "t", "s" >>
      [] str = "role" ->
          << "r", "o", "l", "e" >>
      [] str = "thought" ->
          << "t", "h", "o", "u", "g", "h", "t" >>
      [] str = "function_response" ->
          << "f", "u", "n", "c", "t", "i", "o", "n", "_", "r", "e", "s", "p", "o", "n", "s", "e" >>
      [] str = "function_call" ->
          << "f", "u", "n", "c", "t", "i", "o", "n", "_", "c", "a", "l", "l" >>
      [] str = "name" ->
          << "n", "a", "m", "e" >>
      [] str = "response" ->
          << "r", "e", "s", "p", "o", "n", "s", "e" >>
      [] str = "args" ->
          << "a", "r", "g", "s" >>
      [] str = "user" ->
          << "u", "s", "e", "r" >>
      [] str = "0" ->
          << "0" >>
      [] str = "1" ->
          << "1" >>
      [] str = "2" ->
          << "2" >>
      [] str = "3" ->
          << "3" >>
      [] str = "" -> << >>

VARIABLES
    conversation_managers,  \* dict: conversation id -> manager object, 0: no key
    active_connections,     \* per manager object: its set of websockets
    lpc,                    \* per handle: where its endpoint task stands
    path_conversation_id,   \* per handle: the path parameter
    manager,                \* per handle: the endpoint's local `manager`
    lcloseCode,             \* per handle: the code the server closed it with
    laccepted               \* history, per handle: websocket.accept() ran

legacyVars == << conversation_managers, active_connections, lpc,
                 path_conversation_id, manager, lcloseCode, laccepted >>

\* ------------------------------------------------------------ FilterRegistry
\*
\* app/core/filter_registry.py.  Instants are whole ticks of the clock that
\* datetime.now(timezone.utc) reads; a dict is the list of its items in
\* insertion order.

TtlTicks == 2        \* self.ttl, in ticks
MaxTime == 3         \* the clock stops here
MaxRegisters == 3    \* most register_event calls in a run

ttl == TtlTicks

\* The values register_event is called with.
RegConvIds == { "c2", "c10" }
RegWorkforces == { None, "", "w1", "W2" }

VARIABLES
    conversation_ids,   \* FilterRegistry.conversation_ids
    workforce_names,    \* FilterRegistry.workforce_names
    clock,              \* what datetime.now(timezone.utc) returns
    lastCall,           \* the latest call on the registry and what it returned
    registrations       \* history: the register_event calls, in order

registryVars == << conversation_ids, workforce_names, clock, lastCall,
                   registrations >>

\* The strings that are made from pieces of other strings.
MadeStrings ==
    { "", "request", "city", "agent_name", "text", "status", "ok", "7",
      "{\"a\": 1}", "[1, 2]", "{\"type\": \"update_filter\"}" }

\* The str of a sequence of characters.
Text(cs) == CHOOSE str \in MadeStrings : Chars(str) = cs

\* --------------------------------------------------------- span preprocessor
\*
\* backend/src/span_preprocessor.py.  An Optional value is a sequence of no
\* or one element.

VARIABLES
    span,        \* the span _process_single_span was last called with
    spanEvent,   \* what that call returned
    spanError    \* the exception that call raised, "" if none

spanVars == << span, spanEvent, spanError >>

SpanInit ==
    /\ span = << >>
    /\ spanEvent = << >>
    /\ spanError = ""

\* _determine_event_type called on its own.
VARIABLES
    classInput,   \* how the caller made the span name
    className,    \* the span name, character by character
    classKind     \* what _determine_event_type returned for it

classVars == << classInput, className, classKind >>

ClassInit ==
    /\ classInput = [base |-> "", case |-> "asis", form |-> "plain"]
    /\ className = << >>
    /\ classKind = None

\* One event factory called on its own (app/utils/factories.py).
VARIABLES
    factoryIn,    \* the span name and the attributes of the call
    factoryOut,   \* the event the factory returned, or the error it raised
    typesSeen     \* history: the event_type values of the events made so far

factoryVars == << factoryIn, factoryOut, typesSeen >>

FactoryInit ==
    /\ factoryIn = [name |-> "", attributes |-> << >>]
    /\ factoryOut = [event |-> << >>, error |-> ""]
    /\ typesSeen = {}

\* preprocess_spans called on its own.
VARIABLES
    export_request,   \* the request: resource_spans of scope_spans of spans
    bpc,              \* "idle", "called" or "returned"
    events,           \* the list preprocess_spans returned
    eventSpans,       \* history: for each event, where its span is in the
                      \* request (resource_spans, scope_spans, span index)
    batchError        \* the exception that left preprocess_spans, "" if none

batchVars == << export_request, bpc, events, eventSpans, batchError >>

BatchInit ==
    /\ export_request = << >>
    /\ bpc = "idle"
    /\ events = << >>
    /\ eventSpans = << >>
    /\ batchError = ""

\* POST /v1/traces, one request at a time.
VARIABLES
    http_request,     \* the request: its two headers and its body
    hpc,              \* "idle", "posted" or "responded"
    http_response,    \* the Response receive_traces returned
    distributed,      \* the events handed to distribute_events
    sendFailed        \* whether a send to a subscriber failed meanwhile

httpVars == << http_request, hpc, http_response, distributed, sendFailed >>

NoResponse == [status_code |-> 0, content |-> "", media_type |-> ""]

HttpInit ==
    /\ http_request = << >>
    /\ hpc = "idle"
    /\ http_response = NoResponse
    /\ distributed = << >>
    /\ sendFailed = FALSE

\* FilterCriteria.from_query_params and matches called on their own.
VARIABLES
    query_params,     \* websocket.query_params of the connection
    matchFilter,      \* the FilterCriteria made of them
    matchEvent,       \* the event send_message has for that connection
    matched           \* what matches(event) returned: "True", "False", or
                      \* "none" before the first call

matchVars == << query_params, matchFilter, matchEvent, matched >>

\* The receive loop of websocket_endpoint.
VARIABLES
    frameSeen         \* per sink: what became of the last frame its client
                      \* sent: "none", "ignored", "logged", or the exception
                      \* that left the loop

frameVars == << frameSeen >>

\* send_message of the conversation-path ConnectionManager.
VARIABLES
    lclient,          \* per handle: "up", or "down" once its client is gone
    lcall             \* the send_message call of distribute_events: where it
                      \* stands, the manager it runs on (self), the set
                      \* iterator (the size it was created at, the websockets
                      \* it has yielded), the loop variable, the local
                      \* `disconnected`; history: the set at the last step,
                      \* whether it changed, the websockets in it from
                      \* entry on, the websockets send_text was called on

lsendVars == << lclient, lcall >>

\* extract_llm_request_content and extract_llm_response_content called on
\* their own.
VARIABLES
    llm_attributes,   \* the attributes dict of the call, keys as characters
    llm_content,      \* the LlmRequestContent / LlmResponseContent returned
    cpc               \* "idle", or the extractor that has returned

contentVars == << llm_attributes, llm_content, cpc >>

\* The functions that are called on their own.
unitVars == << matchVars, frameVars, lsendVars, contentVars >>

\* The preprocessor and what is built on it.
pipelineVars == << spanVars, classVars, factoryVars, batchVars, httpVars, unitVars >>

\* The state of the components the query-filter fabric does not touch.
restVars == << legacyVars, registryVars, pipelineVars >>

\* What each of the other components leaves alone.
nonLegacyVars == << fabricVars, registryVars, pipelineVars >>
nonRegistryVars == << fabricVars, legacyVars, pipelineVars >>
nonPipelineVars == << fabricVars, legacyVars, registryVars >>
nonSpanVars == << nonPipelineVars, classVars, factoryVars, batchVars, httpVars, unitVars >>
nonClassVars == << nonPipelineVars, spanVars, factoryVars, batchVars, httpVars, unitVars >>
nonFactoryVars == << nonPipelineVars, spanVars, classVars, batchVars, httpVars, unitVars >>
nonBatchVars == << nonPipelineVars, spanVars, classVars, factoryVars, httpVars, unitVars >>
nonHttpVars == << nonPipelineVars, spanVars, classVars, factoryVars, batchVars, unitVars >>
nonUnitVars == << nonPipelineVars, spanVars, classVars, factoryVars, batchVars, httpVars >>
nonMatchVars == << nonUnitVars, frameVars, lsendVars, contentVars >>
nonContentVars == << nonUnitVars, matchVars, frameVars, lsendVars >>
nonFabricFrameVars == << legacyVars, registryVars, spanVars, classVars, factoryVars, batchVars, httpVars, matchVars, lsendVars, contentVars >>
nonLegacySendVars == << fabricVars, registryVars, spanVars, classVars, factoryVars, batchVars, httpVars, matchVars, frameVars, contentVars >>

NoCall ==
    [ op |-> "none", arg |-> None, at |-> 0, at2 |-> 0,
      conv_before |-> << >>, work_before |-> << >>,
      conversation_ids |-> << >>, workforce_names |-> << >>,
      conversation_ids_count |-> 0, workforce_names_count |-> 0 ]

\* FilterRegistry.__init__
RegistryInit ==
    /\ conversation_ids = << >>
    /\ workforce_names = << >>
    /\ clock = 0
    /\ lastCall = NoCall
    /\ registrations = << >>

vars == << fabricVars, restVars >>

MatchInit ==
    /\ query_params = << >>
    /\ matchFilter = FilterCriteria(None, None)
    /\ matchEvent = << >>
    /\ matched = "none"

ContentInit ==
    /\ llm_attributes = << >>
    /\ llm_content = << >>
    /\ cpc = "idle"

NoSend ==
    [ pc |-> "idle", self |-> 0, used |-> 0, yielded |-> {}, websocket |-> 0,
      disconnected |-> {}, seen |-> {}, changed |-> FALSE, present |-> {},
      sent |-> {} ]

LegacySendInit ==
    /\ lclient = [h \in Sinks |-> "up"]
    /\ lcall = NoSend

LegacyInit ==
    /\ conversation_managers = [c \in ConvIdSet |-> 0]
    /\ active_connections = << >>
    /\ lpc = [h \in Sinks |-> "new"]
    /\ path_conversation_id = [h \in Sinks |-> None]
    /\ manager = [h \in Sinks |-> 0]
    /\ lcloseCode = [h \in Sinks |-> 0]
    /\ laccepted = [h \in Sinks |-> FALSE]

\* ---------------------------------------------------------------- helpers

Members(conns) == { conns[i].ws : i \in DOMAIN conns }

Min(S) == CHOOSE x \in S : \A y \in S : x <= y
Max(S) == CHOOSE x \in S : \A y \in S : y <= x

Count(seq, x) == Cardinality({ i \in DOMAIN seq : seq[i] = x })

\* for event in events (distribute_events): the k-th iteration publishes the
\* k-th event of the list.
EventIndexReversed(b, k) == Len(b) + 1 - k

EventIndex(b, k) == k

Tag(r, b, k) == << r, EventIndex(b, k) >>
EventOf(r, b, k) == b[EventIndex(b, k)]

\* The request's publication in progress, and the event it carries.
CurTag(r) == Tag(r, batch[r], idx[r])
CurEvent(r) == EventOf(r, batch[r], idx[r])
Active(r) == rpc[r] = "sending"
ActiveTags == { CurTag(r) : r \in { q \in Requests : Active(q) } }

\* ConnectionManager.connect, after the handshake: self.connections.append(...)
ConnectListTwice(conns, ws, fc) ==
    conns \o << [ws |-> ws, fc |-> fc], [ws |-> ws, fc |-> fc] >>

ConnectList(conns, ws, fc) == Append(conns, [ws |-> ws, fc |-> fc])

\* ConnectionManager.disconnect: a NEW list without the sink's entries is bound
\* to self.connections; the old list object is left as it was.
DisconnectListFirst(conns, ws) == IF conns = << >> THEN conns ELSE Tail(conns)

DisconnectList(conns, ws) == SelectSeq(conns, LAMBDA c : c.ws # ws)

\* for websocket in disconnected: self.disconnect(websocket)
RECURSIVE DisconnectAll(_, _)
DisconnectAll(conns, wss) ==
    IF wss = << >> THEN conns
    ELSE DisconnectAll(DisconnectList(conns, Head(wss)), Tail(wss))

\* disconnect's own test of whether it removed something:
\* len(self.connections) < original_count.
Removed(conns, ws) == Len(DisconnectList(conns, ws)) < Len(conns)

\* The removals counted over `for websocket in disconnected: self.disconnect`.
RECURSIVE RemovalsAll(_, _, _)
RemovalsAll(conns, wss, cnt) ==
    IF wss = << >> THEN cnt
    ELSE RemovalsAll(DisconnectList(conns, Head(wss)), Tail(wss),
                     IF Removed(conns, Head(wss))
                     THEN [cnt EXCEPT ![Head(wss)] = @ + 1] ELSE cnt)

\* The list iterator of `for websocket, filter_criteria in self.connections`:
\* the first position >= from whose filter matches the event, 0 at the end of
\* the list (the loop's `continue` for a filter that does not match).
NextMatchStopAtMiss(list, from, event) ==
    IF from \in DOMAIN list /\ Matches(list[from].fc, event) THEN from ELSE 0

NextMatch(list, from, event) ==
    LET hits == { i \in DOMAIN list : i >= from /\ Matches(list[i].fc, event) }
    IN  IF hits = {} THEN 0 ELSE Min(hits)

\* What a suspended iteration of request q sees once disconnect(ws) has run:
\* its own list object, untouched, which is no longer self.connections.
IterAfterDisconnectInPlace(q, ws) ==
    IF shared[q]
    THEN [list |-> DisconnectList(iterList[q], ws), shared |-> TRUE]
    ELSE [list |-> iterList[q], shared |-> FALSE]

IterAfterDisconnect(q, ws) == [list |-> iterList[q], shared |-> FALSE]

\* websocket.send_text on sink t: the frame goes out when the client is up;
\* the call will return normally, raise, or stay suspended.
SendOutcome(t) ==
    CASE sink[t] = "up" -> "ok"
      [] sink[t] = "stalled" -> "pending"
      [] OTHER -> "fail"

TransmitNewestFirst(rcv, t, frame) ==
    IF sink[t] = "up" THEN [rcv EXCEPT ![t] = << frame >> \o @] ELSE rcv

Transmit(rcv, t, frame) ==
    IF sink[t] = "up" THEN [rcv EXCEPT ![t] = Append(@, frame)] ELSE rcv

Range(seq) == { seq[i] : i \in DOMAIN seq }

\* ------------------------------------------------------------------- Init

Init ==
    /\ connections = << >>
    /\ wpc = [s \in Sinks |-> "new"]
    /\ filt = [s \in Sinks |-> FilterCriteria(None, None)]
    /\ sink = [s \in Sinks |-> "up"]
    /\ received = [s \in Sinks |-> << >>]
    /\ rpc = [r \in Requests |-> "idle"]
    /\ batch = [r \in Requests |-> << >>]
    /\ idx = [r \in Requests |-> 0]
    /\ iterList = [r \in Requests |-> << >>]
    /\ shared = [r \in Requests |-> FALSE]
    /\ pos = [r \in Requests |-> 0]
    /\ websocket = [r \in Requests |-> 0]
    /\ sendRes = [r \in Requests |-> "none"]
    /\ disconnected = [r \in Requests |-> << >>]
    /\ closeCode = [s \in Sinks |-> 0]
    /\ welcome = [s \in Sinks |-> None]
    /\ removals = [s \in Sinks |-> 0]
    /\ LegacyInit
    /\ RegistryInit
    /\ SpanInit
    /\ ClassInit
    /\ FactoryInit
    /\ BatchInit
    /\ HttpInit
    /\ MatchInit
    /\ LegacySendInit
    /\ ContentInit
    /\ frameSeen = [s \in Sinks |-> "none"]
    /\ log = << >>
    /\ subsAtEntry = [t \in Tags |-> {}]
    /\ present = [t \in Tags |-> {}]
    /\ attempts = [t \in Tags |-> << >>]
    /\ staleSends = [t \in Tags |-> {}]
    /\ failedTo = [t \in Tags |-> {}]
    /\ inFlight = [s \in Sinks |-> {}]
    /\ churn = [t \in Tags |-> FALSE]
    /\ nullDisc = [s \in Sinks |-> FALSE]

\* ------------------------------------------------------- distribute_events

\* distribute_events from its k0-th iteration on, run up to the next
\* suspension.  The query-filter surface has one manager (core/state.py), so
\* each event is published by one send_message(data, event) call on it.
\* conns is self.connections at that moment.  send_message
\* returns without suspending when the list is empty (line 57) or when no
\* filter matches (every iteration takes `continue`); the first call that has
\* a matching subscriber suspends in send_text on the first of them.  With no
\* such call left the request is answered.
Proceed(r, b, k0, conns, lg, sh, pr) ==
    LET hit == { k \in k0..Len(b) : NextMatch(conns, 1, EventOf(r, b, k)) # 0 }
        k1 == IF hit = {} THEN 0 ELSE Min(hit)
        last == IF k1 = 0 THEN Len(b) ELSE k1 - 1
        passLog == [ n \in 1..(2 * (last + 1 - k0)) |->
                       [ op |-> IF n % 2 = 1 THEN "enter" ELSE "return",
                         tag |-> Tag(r, b, k0 + ((n - 1) \div 2)) ] ]
        enteredTags == { Tag(r, b, k) :
                           k \in k0..(IF k1 = 0 THEN Len(b) ELSE k1) }
    IN  /\ connections' = conns
        /\ subsAtEntry' = [ t \in Tags |->
              IF t \in enteredTags THEN Members(conns) ELSE subsAtEntry[t] ]
        /\ present' = [ t \in Tags |->
              IF t \in enteredTags THEN Members(conns) ELSE pr[t] ]
        /\ IF k1 = 0
           THEN /\ rpc' = [rpc EXCEPT ![r] = "done"]
                /\ idx' = [idx EXCEPT ![r] = 0]
                /\ iterList' = [iterList EXCEPT ![r] = << >>]
                /\ shared' = [sh EXCEPT ![r] = FALSE]
                /\ pos' = [pos EXCEPT ![r] = 0]
                /\ websocket' = [websocket EXCEPT ![r] = 0]
                /\ sendRes' = [sendRes EXCEPT ![r] = "none"]
                /\ log' = lg \o passLog
                /\ UNCHANGED << attempts, received >>
           ELSE LET p == NextMatch(conns, 1, EventOf(r, b, k1))
                    t == conns[p].ws
                IN  /\ rpc' = [rpc EXCEPT ![r] = "sending"]
                    /\ idx' = [idx EXCEPT ![r] = k1]
                    /\ iterList' = [iterList EXCEPT ![r] = conns]
                    /\ shared' = [sh EXCEPT ![r] = TRUE]
                    /\ pos' = [pos EXCEPT ![r] = p]
                    /\ websocket' = [websocket EXCEPT ![r] = t]
                    /\ sendRes' = [sendRes EXCEPT ![r] = SendOutcome(t)]
                    /\ log' = lg \o passLog
                                 \o << [op |-> "enter", tag |-> Tag(r, b, k1)] >>
                    /\ attempts' = [attempts EXCEPT ![Tag(r, b, k1)] = << t >>]
                    /\ received' = Transmit(received, t, Tag(r, b, k1))
        /\ disconnected' = [disconnected EXCEPT ![r] = << >>]

Published == Cardinality({ t \in Tags : t[2] \in DOMAIN batch[t[1]] })

\* receive_traces: the body has been read, preprocess_spans has returned the
\* list b, and distribute_events starts.  Requests are interchangeable and
\* are numbered in the order their bodies arrive.
Receive(r) ==
    /\ rpc[r] = "idle"
    /\ \A r0 \in Requests : r0 < r => rpc[r0] # "idle"
    /\ \E b \in Batches :
          /\ Len(b) + Published <= MaxEvents
          /\ batch' = [batch EXCEPT ![r] = b]
          /\ Proceed(r, b, 1, connections, log, shared, present)
    /\ UNCHANGED << sinkVars, failedTo, inFlight, churn, nullDisc, removals,
                    staleSends >>
    /\ UNCHANGED restVars

\* Where the for loop of send_message goes after the send at pos[r] returned
\* (ok) or raised: the except clause only notes the sink, so either way the
\* loop goes on with the entries behind pos[r] of the list it iterates.
LoopNextBreakOnError(r, ok) ==
    IF ok THEN NextMatch(iterList[r], pos[r] + 1, CurEvent(r)) ELSE 0

LoopNext(r, ok) == NextMatch(iterList[r], pos[r] + 1, CurEvent(r))

\* disconnect(ws) has been called and has returned.
DisconnectReturned(ws) == removals[ws] > 0 \/ nullDisc[ws]

\* The history of sends to sinks whose disconnect had returned, after
\* send_text is called on t2 for the call g.
StaleSendsAfter(g, t2) ==
    IF DisconnectReturned(t2) THEN [staleSends EXCEPT ![g] = @ \cup {t2}]
    ELSE staleSends

\* send_message resumes from `await websocket.send_text(message)`: the send
\* returned or raised (the sink is then noted in `disconnected`); the loop
\* goes on to the next matching entry of the list it iterates and suspends in
\* its send, or ends: the failed sinks are disconnected, the call returns and
\* distribute_events goes on.
SendDone(r) ==
    /\ Active(r)
    /\ LET t == websocket[r]
           ok == sendRes[r] = "ok"
           disc == IF ok THEN disconnected[r] ELSE Append(disconnected[r], t)
           nxt == LoopNext(r, ok)
       IN  /\ sendRes[r] = "pending" => sink[t] = "down"
           /\ failedTo' = IF ok THEN failedTo
                          ELSE [failedTo EXCEPT ![CurTag(r)] = @ \cup {t}]
           /\ IF nxt # 0
              THEN LET t2 == iterList[r][nxt].ws
                   IN  /\ pos' = [pos EXCEPT ![r] = nxt]
                       /\ websocket' = [websocket EXCEPT ![r] = t2]
                       /\ sendRes' = [sendRes EXCEPT ![r] = SendOutcome(t2)]
                       /\ received' = Transmit(received, t2, CurTag(r))
                       /\ attempts' = [attempts EXCEPT ![CurTag(r)] = Append(@, t2)]
                       /\ staleSends' = StaleSendsAfter(CurTag(r), t2)
                       /\ disconnected' = [disconnected EXCEPT ![r] = disc]
                       /\ UNCHANGED << connections, rpc, idx, iterList, shared,
                                       log, subsAtEntry, present, churn,
                                       nullDisc, removals >>
              ELSE LET conns1 == DisconnectAll(connections, disc)
                       rebound == disc # << >>
                       sh1 == [ q \in Requests |->
                                  IF rebound THEN FALSE ELSE shared[q] ]
                       pr1 == [ g \in Tags |->
                                  IF g \in ActiveTags
                                  THEN present[g] \cap Members(conns1)
                                  ELSE present[g] ]
                       lg1 == Append(log, [op |-> "return", tag |-> CurTag(r)])
                   IN  /\ Proceed(r, batch[r], idx[r] + 1, conns1, lg1, sh1, pr1)
                       /\ churn' = [ g \in Tags |->
                             churn[g] \/ (rebound /\ g \in ActiveTags \ {CurTag(r)}) ]
                       /\ nullDisc' = [ s \in Sinks |->
                             nullDisc[s] \/ (s \in Range(disc)
                                             /\ s \notin Members(connections)) ]
                       /\ removals' = RemovalsAll(connections, disc, removals)
                       /\ UNCHANGED staleSends
    /\ UNCHANGED << sinkVars, batch, inFlight, restVars >>

\* ------------------------------------------------------ websocket_endpoint

\* websocket_endpoint from the end of the handshake on: connect() appends
\* (websocket, filter) to self.connections, the welcome frame is built and
\* send_text is called with it; when that returns the endpoint waits in
\* websocket.receive_text(), which changes nothing, so both waits are the
\* one position "live".  Sinks are interchangeable and are numbered in the
\* order they connect.
ConnectNoWelcome(s, fc) ==
    /\ wpc[s] = "new"
    /\ \A s0 \in Sinks : s0 < s => wpc[s0] # "new"
    /\ connections' = ConnectList(connections, s, fc)
    /\ iterList' = [ q \in Requests |->
          IF Active(q) /\ shared[q] THEN ConnectList(iterList[q], s, fc)
          ELSE iterList[q] ]
    /\ filt' = [filt EXCEPT ![s] = fc]
    /\ wpc' = [wpc EXCEPT ![s] = "live"]
    /\ inFlight' = [inFlight EXCEPT ![s] = ActiveTags]
    /\ churn' = [ g \in Tags |-> churn[g] \/ g \in ActiveTags ]
    /\ welcome' = [welcome EXCEPT ![s] = "sent"]
    /\ UNCHANGED << sink, received, rpc, batch, idx, shared, pos, websocket, sendRes,
                    disconnected, log, subsAtEntry, present, attempts, staleSends,
                    failedTo, nullDisc, closeCode, removals, restVars >>

Connect(s, fc) ==
    /\ wpc[s] = "new"
    /\ \A s0 \in Sinks : s0 < s => wpc[s0] # "new"
    /\ connections' = ConnectList(connections, s, fc)
    /\ iterList' = [ q \in Requests |->
          IF Active(q) /\ shared[q] THEN ConnectList(iterList[q], s, fc)
          ELSE iterList[q] ]
    /\ filt' = [filt EXCEPT ![s] = fc]
    /\ wpc' = [wpc EXCEPT ![s] = "live"]
    /\ received' = Transmit(received, s, Welcome)
    /\ inFlight' = [inFlight EXCEPT ![s] = ActiveTags]
    /\ churn' = [ g \in Tags |-> churn[g] \/ g \in ActiveTags ]
    /\ welcome' = [welcome EXCEPT ![s] = "sent"]
    /\ UNCHANGED << sink, rpc, batch, idx, shared, pos, websocket, sendRes, disconnected,
                    log, subsAtEntry, present, attempts, staleSends, failedTo, nullDisc,
                    closeCode, removals, restVars >>

\* The client goes away: every later send_text on the sink raises and the
\* endpoint's receive_text raises WebSocketDisconnect.
ClientClose(s) ==
    /\ wpc[s] = "live"
    /\ sink[s] # "down"
    /\ sink' = [sink EXCEPT ![s] = "down"]
    /\ UNCHANGED << connections, wpc, filt, received, rpc, batch, idx,
                    iterList, shared, pos, websocket, sendRes, disconnected,
                    closeCode, welcome, histVars, restVars >>

\* The client stops reading without closing: a send_text on the sink stays
\* suspended until the client goes away.
ClientStall(s) ==
    /\ wpc[s] = "live"
    /\ sink[s] = "up"
    /\ sink' = [sink EXCEPT ![s] = "stalled"]
    /\ UNCHANGED << connections, wpc, filt, received, rpc, batch, idx,
                    iterList, shared, pos, websocket, sendRes, disconnected,
                    closeCode, welcome, histVars, restVars >>

\* The finally clause of websocket_endpoint:
\* connection_manager.disconnect(websocket), after which the task is over.
FinallyClause(s) ==
    /\ wpc' = [wpc EXCEPT ![s] = "closed"]
    /\ connections' = DisconnectList(connections, s)
    /\ iterList' = [ q \in Requests |->
          IF Active(q) THEN IterAfterDisconnect(q, s).list ELSE iterList[q] ]
    /\ shared' = [ q \in Requests |->
          IF Active(q) THEN IterAfterDisconnect(q, s).shared ELSE FALSE ]
    /\ present' = [ g \in Tags |->
          IF g \in ActiveTags THEN present[g] \ {s} ELSE present[g] ]
    /\ churn' = [ g \in Tags |-> churn[g] \/ g \in ActiveTags ]
    /\ nullDisc' = [nullDisc EXCEPT ![s] = @ \/ s \notin Members(connections)]
    /\ removals' = [removals EXCEPT
          ![s] = IF Removed(connections, s) THEN @ + 1 ELSE @]
    /\ UNCHANGED << filt, sink, received, rpc, batch, idx, pos, websocket, sendRes,
                    disconnected, closeCode, welcome, log, subsAtEntry,
                    attempts, staleSends, failedTo, inFlight >>

FinallyDisconnect(s) == FinallyClause(s) /\ UNCHANGED restVars

EndpointExitNoFinally(s) ==
    /\ wpc[s] = "live"
    /\ sink[s] = "down"
    /\ wpc' = [wpc EXCEPT ![s] = "closed"]
    /\ UNCHANGED << connections, filt, sink, received, rpc, batch, idx,
                    iterList, shared, pos, websocket, sendRes, disconnected,
                    closeCode, welcome, histVars, restVars >>

\* receive_text raised WebSocketDisconnect: break, then the finally clause
\* runs connection_manager.disconnect(websocket).
EndpointExit(s) ==
    /\ wpc[s] = "live"
    /\ sink[s] = "down"
    /\ FinallyDisconnect(s)

\* json.dumps(welcome_data) raises TypeError or ValueError: the sink has been
\* accepted and appended by connect(), no welcome frame is sent, and the
\* endpoint calls websocket.close(code=4500), after which every send_text on
\* the sink raises.
WelcomeFailEntersLoop(s, fc) ==
    /\ wpc[s] = "new"
    /\ \A s0 \in Sinks : s0 < s => wpc[s0] # "new"
    /\ connections' = ConnectList(connections, s, fc)
    /\ iterList' = [ q \in Requests |->
          IF Active(q) /\ shared[q] THEN ConnectList(iterList[q], s, fc)
          ELSE iterList[q] ]
    /\ filt' = [filt EXCEPT ![s] = fc]
    /\ wpc' = [wpc EXCEPT ![s] = "live"]
    /\ welcome' = [welcome EXCEPT ![s] = "failed"]
    /\ inFlight' = [inFlight EXCEPT ![s] = ActiveTags]
    /\ churn' = [ g \in Tags |-> churn[g] \/ g \in ActiveTags ]
    /\ UNCHANGED << sink, closeCode, received, rpc, batch, idx, shared, pos,
                    websocket, sendRes, disconnected, log, subsAtEntry, present,
                    attempts, staleSends, failedTo, nullDisc, removals, restVars >>

WelcomeFail(s, fc) ==
    /\ wpc[s] = "new"
    /\ \A s0 \in Sinks : s0 < s => wpc[s0] # "new"
    /\ connections' = ConnectList(connections, s, fc)
    /\ iterList' = [ q \in Requests |->
          IF Active(q) /\ shared[q] THEN ConnectList(iterList[q], s, fc)
          ELSE iterList[q] ]
    /\ filt' = [filt EXCEPT ![s] = fc]
    /\ wpc' = [wpc EXCEPT ![s] = "closing"]
    /\ welcome' = [welcome EXCEPT ![s] = "failed"]
    /\ closeCode' = [closeCode EXCEPT ![s] = CloseInternalError]
    /\ sink' = [sink EXCEPT ![s] = "down"]
    /\ inFlight' = [inFlight EXCEPT ![s] = ActiveTags]
    /\ churn' = [ g \in Tags |-> churn[g] \/ g \in ActiveTags ]
    /\ UNCHANGED << received, rpc, batch, idx, shared, pos, websocket, sendRes,
                    disconnected, log, subsAtEntry, present, attempts, staleSends,
                    failedTo, nullDisc, removals, restVars >>

\* websocket.close(code=4500) has returned: `return`, then the finally
\* clause.
CloseDone(s) ==
    /\ wpc[s] = "closing"
    /\ FinallyDisconnect(s)

\* ------------------------------------------------------------------- Next

Next ==
    \/ \E r \in Requests : Receive(r)
    \/ \E r \in Requests : SendDone(r)
    \/ \E s \in Sinks : \E fc \in FilterSet : Connect(s, fc)
    \/ \E s \in Sinks : ClientClose(s)
    \/ \E s \in Sinks : EndpointExit(s)

Spec == Init /\ [][Next]_vars

\* The same program with clients that may stop reading.  The event loop runs
\* every task that is ready: a send that can return does return, and an
\* endpoint whose client is gone does exit.  Clients and incoming requests
\* are under no obligation.
NextStall ==
    \/ Next
    \/ \E s \in Sinks : ClientStall(s)

SpecFair ==
    /\ Init
    /\ [][NextStall]_vars
    /\ \A r \in Requests : WF_vars(SendDone(r))
    /\ \A s \in Sinks : WF_vars(EndpointExit(s))

\* The fabric with a welcome frame whose serialization may fail.
NextWelcome ==
    \/ Next
    \/ \E s \in Sinks : \E fc \in FilterSet : WelcomeFail(s, fc)
    \/ \E s \in Sinks : CloseDone(s)

SpecWelcome == Init /\ [][NextWelcome]_vars

\* --------------------------------------------- conversation-path endpoint

HexLower ==
    { "0", "1", "2", "3", "4", "5", "6", "7", "8", "9",
      "a", "b", "c", "d", "e", "f" }

\* The characters the pattern
\* [0-9a-f]{8}-[0-9a-f]{4}-4[0-9a-f]{3}-[89ab][0-9a-f]{3}-[0-9a-f]{12}
\* admits at position i.
Uuid4Class(i) ==
    CASE i \in {9, 14, 19, 24} -> { "-" }
      [] i = 15 -> { "4" }
      [] i = 20 -> { "8", "9", "a", "b" }
      [] OTHER -> HexLower

\* `$` of a Python pattern without re.MULTILINE: the end of the string, or
\* the place just before a newline that ends the string.
DollarMatches(cs, p) ==
    IF p = Len(cs) + 1 THEN TRUE
    ELSE p = Len(cs) /\ cs[p] = "\n"

\* validate_conversation_id: re.match(r"^...$", conversation_id) is not None,
\* False for an empty string.
validate_conversation_id(conversation_id) ==
    IF conversation_id = "" THEN FALSE
    ELSE LET cs == Chars(conversation_id)
         IN  /\ Len(cs) >= Uuid4Len
             /\ \A i \in 1..Uuid4Len : cs[i] \in Uuid4Class(i)
             /\ DollarMatches(cs, Uuid4Len + 1)

\* websocket_endpoint(websocket, conversation_id) up to its first wait.  An
\* id that fails validation: websocket.close(code=4400) and return, before
\* any manager is looked up.  Otherwise the manager of the id is created
\* when the dict has none, bound to the local `manager`, and manager.connect
\* waits in websocket.accept().
LegacyOpen(h, cid) ==
    /\ lpc[h] = "new"
    /\ \A h0 \in Sinks : h0 < h => lpc[h0] # "new"
    /\ path_conversation_id' = [path_conversation_id EXCEPT ![h] = cid]
    /\ IF ~validate_conversation_id(cid)
       THEN /\ lcloseCode' = [lcloseCode EXCEPT ![h] = CloseInvalidRequest]
            /\ lpc' = [lpc EXCEPT ![h] = "rejected"]
            /\ UNCHANGED << conversation_managers, active_connections,
                            manager >>
       ELSE LET fresh == conversation_managers[cid] = 0
                m == IF fresh THEN Len(active_connections) + 1
                     ELSE conversation_managers[cid]
            IN  /\ lpc' = [lpc EXCEPT ![h] = "accepting"]
                /\ active_connections' =
                      IF fresh THEN Append(active_connections, {})
                      ELSE active_connections
                /\ conversation_managers' =
                      [conversation_managers EXCEPT ![cid] = m]
                /\ manager' = [manager EXCEPT ![h] = m]
                /\ UNCHANGED lcloseCode
    /\ UNCHANGED << laccepted, nonLegacyVars >>

\* ConnectionManager.connect resumes from websocket.accept():
\* self.active_connections.add(websocket); the welcome text is sent and the
\* endpoint waits in websocket.receive_text().
LegacyAccepted(h) ==
    /\ lpc[h] = "accepting"
    /\ lpc' = [lpc EXCEPT ![h] = "live"]
    /\ laccepted' = [laccepted EXCEPT ![h] = TRUE]
    /\ active_connections' =
          [active_connections EXCEPT ![manager[h]] = @ \cup {h}]
    /\ UNCHANGED << conversation_managers, path_conversation_id, manager,
                    lcloseCode, nonLegacyVars >>

\* The client goes away during the handshake: websocket.accept() raises
\* outside the try statement, so the task ends without its finally clause.
LegacyAcceptFails(h) ==
    /\ lpc[h] = "accepting"
    /\ lpc' = [lpc EXCEPT ![h] = "closed"]
    /\ UNCHANGED << conversation_managers, active_connections,
                    path_conversation_id, manager, lcloseCode, laccepted,
                    nonLegacyVars >>

\* receive_text raises WebSocketDisconnect: break, then the finally clause:
\* manager.disconnect(websocket) and, when the manager is left empty,
\* del conversation_managers[conversation_id] (which raises KeyError when
\* the key is gone; the task ends either way).
LegacyDisconnect(h) ==
    /\ lpc[h] = "live"
    /\ lpc' = [lpc EXCEPT ![h] = "closed"]
    /\ LET m == manager[h]
           left == active_connections[m] \ {h}
       IN  /\ active_connections' = [active_connections EXCEPT ![m] = left]
           /\ conversation_managers' =
                 IF left = {}
                 THEN [conversation_managers EXCEPT
                          ![path_conversation_id[h]] = 0]
                 ELSE conversation_managers
    /\ UNCHANGED << path_conversation_id, manager, lcloseCode, laccepted,
                    nonLegacyVars >>

\* ---------------------------------- conversation-path fabric: send_message
\*
\* backend/src/agent_monitor/core/connection_manager.py: active_connections
\* is a set, and send_message iterates the set itself while it waits in
\* send_text.  backend/src/connection_manager.py
\* (send_message_for_conversation, send_message_to_all) has the same loop
\* over the same kind of set.

\* The client of a connected websocket goes away; its endpoint task has not
\* run yet, so the websocket is still in its manager's set.
LegacyClientClose(h) ==
    /\ lpc[h] = "live"
    /\ lclient[h] = "up"
    /\ lclient' = [lclient EXCEPT ![h] = "down"]
    /\ UNCHANGED << lcall, legacyVars, nonLegacySendVars >>

\* websocket.send_text raises on a websocket whose client is gone.
SendRaises(ws) == lclient[ws] = "down" \/ lpc[ws] = "closed"

\* next() of a set iterator: RuntimeError("Set changed size during
\* iteration") when the set's size differs from the size the iterator was
\* created at, whatever the iterator has yielded so far.
SetIterRaises(s, used) == Cardinality(s) # used

\* What next() may yield when it does not raise: an element of the set not
\* yielded before, or the end of the iteration (0) when there is none.  For
\* a set whose content changed at unchanged size, which of the new elements
\* the iterator still comes to depends on the slots they hash to, so the
\* iteration may also end before them.
SetIterNext(s, yielded, changed) ==
    (s \ yielded) \cup (IF changed \/ s \subseteq yielded THEN {0} ELSE {})

\* distribute_events, for an event of conversation cid whose id is a key of
\* conversation_managers: send_message is called on the manager stored
\* there.  `for websocket in self.active_connections` creates the iterator;
\* with an empty set the call returns at once, otherwise it waits in
\* send_text on the first websocket the iterator yields.
LegacySendEnter(cid) ==
    /\ lcall.pc # "sending"
    /\ conversation_managers[cid] # 0
    /\ LET mgr == conversation_managers[cid]
           s == active_connections[mgr]
       IN  \E ws \in SetIterNext(s, {}, FALSE) :
              lcall' =
                 IF ws = 0 THEN [ NoSend EXCEPT !.pc = "returned", !.self = mgr ]
                 ELSE [ pc |-> "sending", self |-> mgr, used |-> Cardinality(s),
                        yielded |-> {ws}, websocket |-> ws,
                        disconnected |-> {}, seen |-> s, changed |-> FALSE,
                        present |-> s, sent |-> {ws} ]
    /\ UNCHANGED << lclient, legacyVars, nonLegacySendVars >>

\* send_message resumes from send_text: a send that raised is noted in
\* `disconnected`, and the for statement asks the iterator for the next
\* websocket.  RuntimeError is raised by the for statement itself, outside
\* the try statement, and leaves send_message.  At the end of the iteration
\* every noted websocket is disconnected and the call returns.
LegacySendDone ==
    /\ lcall.pc = "sending"
    /\ LET s == active_connections[lcall.self]
           disc == IF SendRaises(lcall.websocket)
                   THEN lcall.disconnected \cup {lcall.websocket}
                   ELSE lcall.disconnected
           changed == lcall.changed \/ s # lcall.seen
           resumed == [ lcall EXCEPT !.disconnected = disc, !.seen = s,
                                     !.changed = changed,
                                     !.present = @ \cap s ]
       IN  IF SetIterRaises(s, lcall.used)
           THEN /\ lcall' = [ resumed EXCEPT !.pc = "RuntimeError" ]
                /\ UNCHANGED active_connections
           ELSE \E ws \in SetIterNext(s, lcall.yielded, changed) :
                   IF ws = 0
                   THEN /\ lcall' = [ resumed EXCEPT !.pc = "returned" ]
                        /\ active_connections' =
                              [active_connections EXCEPT ![lcall.self] = @ \ disc]
                   ELSE /\ lcall' = [ resumed EXCEPT !.websocket = ws,
                                                     !.yielded = @ \cup {ws},
                                                     !.sent = @ \cup {ws} ]
                        /\ UNCHANGED active_connections
    /\ UNCHANGED << conversation_managers, lpc, path_conversation_id, manager,
                    lcloseCode, laccepted, lclient, nonLegacySendVars >>

NextLegacySend ==
    \/ \E h \in Sinks : \E cid \in ConvIdSet : LegacyOpen(h, cid)
    \/ \E h \in Sinks : LegacyAccepted(h)
    \/ \E h \in Sinks : LegacyAcceptFails(h)
    \/ \E h \in Sinks : LegacyDisconnect(h)
    \/ \E h \in Sinks : LegacyClientClose(h)
    \/ \E cid \in ConvIdSet : LegacySendEnter(cid)
    \/ LegacySendDone

SpecLegacySend == Init /\ [][NextLegacySend]_vars

\* The query parameters a client may send to /ws, as
\* FilterCriteria.from_query_params reads them.
QueryFilterSet == { FilterCriteria(c, None) : c \in ConvIdSet \cup {None} }

\* The subscriber endpoints of both surfaces, with clients that ask for
\* well-formed and for malformed conversation ids.
NextHandshake ==
    \/ \E h \in Sinks : \E cid \in ConvIdSet : LegacyOpen(h, cid)
    \/ \E h \in Sinks : LegacyAccepted(h)
    \/ \E h \in Sinks : LegacyAcceptFails(h)
    \/ \E h \in Sinks : LegacyDisconnect(h)
    \/ \E s \in Sinks : \E fc \in QueryFilterSet : Connect(s, fc)
    \/ \E s \in Sinks : ClientClose(s)
    \/ \E s \in Sinks : EndpointExit(s)

SpecHandshake == Init /\ [][NextHandshake]_vars

\* ------------------------------------------------------------ FilterRegistry

\* The characters of the strings in use, in code point order.
CharsInOrder ==
    << "\n", "-", "0", "1", "2", "3", "4", "5", "6", "7", "8", "9",
       "A", "B", "C", "D", "E", "F", "W", "a", "b", "c", "d", "e", "f", "w" >>

CharRank(ch) == CHOOSE i \in DOMAIN CharsInOrder : CharsInOrder[i] = ch

\* x < y for two sequences of characters, as Python compares two str.
RECURSIVE SeqLess(_, _)
SeqLess(x, y) ==
    IF y = << >> THEN FALSE
    ELSE IF x = << >> THEN TRUE
    ELSE IF Head(x) = Head(y) THEN SeqLess(Tail(x), Tail(y))
    ELSE CharRank(Head(x)) < CharRank(Head(y))

StrLess(a, b) == SeqLess(Chars(a), Chars(b))

\* The list without its i-th element.
DropAt(seq, i) == [ j \in 1..(Len(seq) - 1) |-> IF j < i THEN seq[j] ELSE seq[j + 1] ]

\* sorted(list of str)
RECURSIVE SortedList(_)
sortedAsStored(keys) == keys

sorted(keys) == SortedList(keys)

SortedList(keys) ==
    IF keys = << >> THEN << >>
    ELSE LET m == CHOOSE i \in DOMAIN keys :
                    \A j \in DOMAIN keys :
                        ~StrLess(keys[j], keys[i]) /\ (keys[j] = keys[i] => i <= j)
         IN  << keys[m] >> \o SortedList(DropAt(keys, m))

\* dict.keys(), `k in d`, d[k] = v
DictKeys(d) == [ i \in DOMAIN d |-> d[i].k ]
InDict(d, k) == \E i \in DOMAIN d : d[i].k = k
DictGetValue(d, k) == d[CHOOSE i \in DOMAIN d : d[i].k = k].v

DictSetAppends(d, k, v) == Append(d, [k |-> k, v |-> v])

DictSet(d, k, v) ==
    IF InDict(d, k)
    THEN [ i \in DOMAIN d |-> IF d[i].k = k THEN [k |-> k, v |-> v] ELSE d[i] ]
    ELSE Append(d, [k |-> k, v |-> v])

\* _cleanup on one dict: the items with v <= now - ttl are deleted.
cleanupKeepsCutoff(d, now) == SelectSeq(d, LAMBDA e : ~(e.v < now - ttl))

cleanup(d, now) == SelectSeq(d, LAMBDA e : ~(e.v <= now - ttl))

\* Python's truth value of an Optional[str].
Truthy(x) == x # None /\ x # ""

\* The clock moves on.
Tick ==
    /\ clock < MaxTime
    /\ clock' = clock + 1
    /\ UNCHANGED << conversation_ids, workforce_names, lastCall,
                    registrations, nonRegistryVars >>

\* register_event that cleans up as the reads do
register_event_evicting(c, w) ==
    /\ Len(registrations) < MaxRegisters
    /\ conversation_ids' = DictSet(cleanup(conversation_ids, clock), c, clock)
    /\ workforce_names' =
          IF Truthy(w) THEN DictSet(cleanup(workforce_names, clock), w, clock)
          ELSE cleanup(workforce_names, clock)
    /\ registrations' = Append(registrations,
          [conversation_id |-> c, workforce_name |-> w, at |-> clock])
    /\ lastCall' = [ NoCall EXCEPT !.op = "register_event", !.arg = c,
                                   !.at = clock, !.at2 = clock,
                                   !.conv_before = conversation_ids,
                                   !.work_before = workforce_names ]
    /\ UNCHANGED << clock, nonRegistryVars >>

\* register_event(conversation_id, workforce_name)
register_event(c, w) ==
    /\ Len(registrations) < MaxRegisters
    /\ conversation_ids' = DictSet(conversation_ids, c, clock)
    /\ workforce_names' =
          IF Truthy(w) THEN DictSet(workforce_names, w, clock)
          ELSE workforce_names
    /\ registrations' = Append(registrations,
          [conversation_id |-> c, workforce_name |-> w, at |-> clock])
    /\ lastCall' = [ NoCall EXCEPT !.op = "register_event", !.arg = c,
                                   !.at = clock, !.at2 = clock,
                                   !.conv_before = conversation_ids,
                                   !.work_before = workforce_names ]
    /\ UNCHANGED << clock, nonRegistryVars >>

\* get_conversation_ids(): _cleanup(), then the sorted keys.
get_conversation_ids ==
    /\ conversation_ids' = cleanup(conversation_ids, clock)
    /\ workforce_names' = cleanup(workforce_names, clock)
    /\ lastCall' = [ NoCall EXCEPT !.op = "get_conversation_ids",
                                   !.at = clock, !.at2 = clock,
                                   !.conv_before = conversation_ids,
                                   !.work_before = workforce_names,
                                   !.conversation_ids =
                                       sorted(DictKeys(conversation_ids')) ]
    /\ UNCHANGED << clock, registrations, nonRegistryVars >>

\* get_workforce_names()
get_workforce_names ==
    /\ conversation_ids' = cleanup(conversation_ids, clock)
    /\ workforce_names' = cleanup(workforce_names, clock)
    /\ lastCall' = [ NoCall EXCEPT !.op = "get_workforce_names",
                                   !.at = clock, !.at2 = clock,
                                   !.conv_before = conversation_ids,
                                   !.work_before = workforce_names,
                                   !.workforce_names =
                                       sorted(DictKeys(workforce_names')) ]
    /\ UNCHANGED << clock, registrations, nonRegistryVars >>

\* get_stats(), which is all of GET /api/filters/stats.
get_stats_no_cleanup ==
    /\ lastCall' = [ NoCall EXCEPT !.op = "get_stats",
                                   !.at = clock, !.at2 = clock,
                                   !.conv_before = conversation_ids,
                                   !.work_before = workforce_names,
                                   !.conversation_ids_count =
                                       Len(conversation_ids),
                                   !.workforce_names_count =
                                       Len(workforce_names) ]
    /\ UNCHANGED << conversation_ids, workforce_names, clock, registrations,
                    nonRegistryVars >>

get_stats ==
    /\ conversation_ids' = cleanup(conversation_ids, clock)
    /\ workforce_names' = cleanup(workforce_names, clock)
    /\ lastCall' = [ NoCall EXCEPT !.op = "get_stats",
                                   !.at = clock, !.at2 = clock,
                                   !.conv_before = conversation_ids,
                                   !.work_before = workforce_names,
                                   !.conversation_ids_count =
                                       Len(conversation_ids'),
                                   !.workforce_names_count =
                                       Len(workforce_names') ]
    /\ UNCHANGED << clock, registrations, nonRegistryVars >>

\* GET /api/filters: get_conversation_ids() and then get_workforce_names(),
\* each reading the clock, which may have moved on in between.
get_filter_options ==
    \E now2 \in { t \in {clock, clock + 1} : t <= MaxTime } :
        /\ clock' = now2
        /\ conversation_ids' =
              cleanup(cleanup(conversation_ids, clock), now2)
        /\ workforce_names' = cleanup(cleanup(workforce_names, clock), now2)
        /\ lastCall' = [ NoCall EXCEPT !.op = "get_filter_options",
                             !.at = clock, !.at2 = now2,
                             !.conv_before = conversation_ids,
                             !.work_before = workforce_names,
                             !.conversation_ids =
                                 sorted(DictKeys(cleanup(conversation_ids, clock))),
                             !.workforce_names =
                                 sorted(DictKeys(workforce_names')) ]
        /\ UNCHANGED << registrations, nonRegistryVars >>

\* The registry under any caller.
NextRegistry ==
    \/ Tick
    \/ \E c \in RegConvIds : \E w \in RegWorkforces : register_event(c, w)
    \/ get_conversation_ids
    \/ get_workforce_names
    \/ get_stats
    \/ get_filter_options

SpecRegistry == Init /\ [][NextRegistry]_vars

\* The registry as the routes of the application use it: POST /v1/traces
\* (receive_traces), GET /api/filters and GET /api/filters/stats.
NextIngest ==
    \/ Tick
    \/ \E r \in Requests : Receive(r)
    \/ get_filter_options
    \/ get_stats

SpecIngest == Init /\ [][NextIngest]_vars

\* --------------------------------------------------------- span preprocessor

\* datetime.MAXYEAR: datetime.fromtimestamp raises for an instant beyond it.
MAXYEAR == 9999
\* The last year of a 32-bit time_t: where the platform's gmtime works on
\* one, datetime.fromtimestamp raises OverflowError for a later instant.
TIME_T_MAX_YEAR == 2038
\* The year of the largest start_time_unix_nano, a fixed64 of nanoseconds.
UINT64_MAX_YEAR == 2554

\* A Python value, by its type and the text str() gives for it.
PyValue(type, repr) == [type |-> type, repr |-> repr]
PyNone == PyValue("NoneType", "None")

\* An OTLP AnyValue, by the field of its oneof that is set and the text of
\* the value.
AnyValue(kind, repr) == [kind |-> kind, repr |-> repr]

\* bool(x) is False
FalsyOnlyNone(x) == x = PyNone

Falsy(x) ==
    CASE x.type = "NoneType" -> TRUE
      [] x.type = "bool" -> x.repr = "False"
      [] x.type = "int" -> x.repr = "0"
      [] x.type = "float" -> x.repr = "0.0"
      [] OTHER -> x.repr = ""

\* _extract_attribute_value
extract_attribute_value(attr_value) ==
    CASE attr_value.kind = "string_value" -> PyValue("str", attr_value.repr)
      [] attr_value.kind = "int_value" -> PyValue("int", attr_value.repr)
      [] attr_value.kind = "double_value" -> PyValue("float", attr_value.repr)
      [] attr_value.kind = "bool_value" -> PyValue("bool", attr_value.repr)
      [] OTHER -> PyNone

\* _extract_span_attributes: the dict of the values that are not None, a
\* later attribute of the same key replacing an earlier one.
RECURSIVE ExtractInto(_, _)
ExtractInto(attrs, d) ==
    IF attrs = << >> THEN d
    ELSE LET value == extract_attribute_value(Head(attrs).value)
         IN  ExtractInto(Tail(attrs),
                         IF value # PyNone
                         THEN DictSet(d, Head(attrs).key, value) ELSE d)

extract_span_attributes(sp) == ExtractInto(sp.attributes, << >>)

\* attributes.get(key, default)
AttrGet(d, key, default) == IF InDict(d, key) THEN DictGetValue(d, key) ELSE default

\* str.lower(), character by character.
UpperLetters ==
    << "A", "B", "C", "D", "E", "F", "G", "H", "I", "J", "K", "L", "M",
       "N", "O", "P", "Q", "R", "S", "T", "U", "V", "W", "X", "Y", "Z" >>
LowerLetters ==
    << "a", "b", "c", "d", "e", "f", "g", "h", "i", "j", "k", "l", "m",
       "n", "o", "p", "q", "r", "s", "t", "u", "v", "w", "x", "y", "z" >>

LowerChar(ch) ==
    IF \E i \in DOMAIN UpperLetters : UpperLetters[i] = ch
    THEN LowerLetters[CHOOSE i \in DOMAIN UpperLetters : UpperLetters[i] = ch]
    ELSE ch

\* a name that is compared as it is written
LowerNot(cs) == cs

Lower(cs) == [ i \in DOMAIN cs |-> LowerChar(cs[i]) ]

\* str.startswith
StartsWith(cs, prefix) ==
    /\ Len(prefix) <= Len(cs)
    /\ \A i \in DOMAIN prefix : cs[i] = prefix[i]

\* The if/elif chain of _determine_event_type, in its order.
EventPrefixes ==
    << [prefix |-> "before_agent", event_type |-> "agent_start"],
       [prefix |-> "before_model", event_type |-> "llm_call_start"],
       [prefix |-> "before_llm", event_type |-> "llm_call_start"],
       [prefix |-> "after_model", event_type |-> "llm_call_end"],
       [prefix |-> "after_llm", event_type |-> "llm_call_end"],
       [prefix |-> "on_model_error", event_type |-> "llm_call_error"],
       [prefix |-> "before_tool", event_type |-> "tool_call_start"],
       [prefix |-> "after_tool", event_type |-> "tool_call_end"],
       [prefix |-> "on_tool_error", event_type |-> "tool_call_error"],
       [prefix |-> "after_agent", event_type |-> "agent_end"] >>

\* _determine_event_type, of the characters of the name: the first branch
\* of the chain whose prefix the lower-cased name starts with.
DetermineEventType(cs) ==
    LET span_name_lower == Lower(cs)
        hits == { i \in DOMAIN EventPrefixes :
                    StartsWith(span_name_lower, Chars(EventPrefixes[i].prefix)) }
    IN  IF hits = {} THEN None ELSE EventPrefixes[Min(hits)].event_type

\* _determine_event_type
determine_event_type(span_name) == DetermineEventType(Chars(span_name))

\* _convert_timestamp_to_iso, an instant being read to the year: the ISO
\* text with its "+00:00" replaced by "Z", or None when fromtimestamp raises.
\* a conversion that takes every instant
convert_timestamp_to_iso_any(timestamp_nano) ==
    << [year |-> timestamp_nano, zone |-> "Z"] >>

convert_timestamp_to_iso(timestamp_nano) ==
    IF timestamp_nano <= MAXYEAR /\ timestamp_nano <= TIME_T_MAX_YEAR
    THEN << [year |-> timestamp_nano, zone |-> "Z"] >>
    ELSE << >>

\* ------------------------------------------------ _determine_event_type

\* str.upper(), character by character.
UpperChar(ch) ==
    IF \E i \in DOMAIN LowerLetters : LowerLetters[i] = ch
    THEN UpperLetters[CHOOSE i \in DOMAIN LowerLetters : LowerLetters[i] = ch]
    ELSE ch

\* The names a tracer may give a span: a callback name or another word,
\* written in lower case, in upper case or capitalized, and then as it is,
\* followed by more text, cut short by a character, or preceded by one.
NameBases ==
    { EventPrefixes[i].prefix : i \in DOMAIN EventPrefixes } \cup { "cleanup", "" }
NameCases == { "asis", "upper", "capitalized" }
NameForms == { "plain", "suffixed", "cut", "preceded" }

NameInputs == [ base : NameBases, case : NameCases, form : NameForms ]

Cased(cs, case) ==
    [ i \in DOMAIN cs |->
        IF case = "upper" \/ (case = "capitalized" /\ i = 1)
        THEN UpperChar(cs[i]) ELSE cs[i] ]

Formed(cs, form) ==
    CASE form = "plain" -> cs
      [] form = "suffixed" -> cs \o << "_", "C", "b", "1" >>
      [] form = "cut" -> SubSeq(cs, 1, Len(cs) - 1)
      [] form = "preceded" -> << "x" >> \o cs

NameOf(in) == Formed(Cased(Chars(in.base), in.case), in.form)

\* One call of _determine_event_type.
Classify(in) ==
    /\ classInput' = in
    /\ className' = NameOf(in)
    /\ classKind' = DetermineEventType(NameOf(in))
    /\ UNCHANGED nonClassVars

NextClassify == \E in \in NameInputs : Classify(in)

SpecClassify == Init /\ [][NextClassify]_vars

\* ------------------------------------------------------------- json.loads
\*
\* The texts in use are made of digits, letters, spaces, double quotes,
\* brackets, braces, colons and commas; a number is a run of digits.

Digits == { "0", "1", "2", "3", "4", "5", "6", "7", "8", "9" }

JSONDecodeError == [ok |-> FALSE, next |-> 0, err |-> "JSONDecodeError"]
Scanned(n) == [ok |-> TRUE, next |-> n, err |-> ""]

\* The first position from i on that holds none of the characters of set,
\* Len(cs) + 1 when there is none.
SkipAll(cs, i, set) ==
    IF \A j \in i..Len(cs) : cs[j] \in set THEN Len(cs) + 1
    ELSE CHOOSE j \in i..Len(cs) :
             cs[j] \notin set /\ \A k \in i..(j - 1) : cs[k] \in set

SkipWs(cs, i) == SkipAll(cs, i, { " " })

HasAt(cs, i, word) ==
    /\ i + Len(word) - 1 <= Len(cs)
    /\ SubSeq(cs, i, i + Len(word) - 1) = word

\* A string, from its opening quote at i to its closing quote.
ScanString(cs, i) ==
    LET ends == { j \in (i + 1)..Len(cs) : cs[j] = "\"" }
    IN  IF ends = {} THEN JSONDecodeError ELSE Scanned(Min(ends) + 1)

\* A number, from its first digit at i: a lone 0, or a run of digits, which
\* int() refuses when it is longer than MaxStrDigits.
ScanNumber(cs, i) ==
    LET stop == SkipAll(cs, i, Digits)
    IN  IF cs[i] = "0" THEN Scanned(i + 1)
        ELSE IF stop - i > MaxStrDigits
        THEN [ok |-> FALSE, next |-> 0, err |-> "ValueError"]
        ELSE Scanned(stop)

RECURSIVE ScanValue(_, _), ScanElements(_, _), ScanMembers(_, _)

\* One JSON value that starts at i.
ScanValue(cs, i) ==
    IF i > Len(cs) THEN JSONDecodeError
    ELSE IF cs[i] = "\"" THEN ScanString(cs, i)
    ELSE IF cs[i] \in Digits THEN ScanNumber(cs, i)
    ELSE IF cs[i] = "[" THEN
        LET j == SkipWs(cs, i + 1)
        IN  IF j <= Len(cs) /\ cs[j] = "]" THEN Scanned(j + 1)
            ELSE ScanElements(cs, j)
    ELSE IF cs[i] = "{" THEN
        LET j == SkipWs(cs, i + 1)
        IN  IF j <= Len(cs) /\ cs[j] = "}" THEN Scanned(j + 1)
            ELSE ScanMembers(cs, j)
    ELSE IF HasAt(cs, i, << "n", "u", "l", "l" >>) THEN Scanned(i + 4)
    ELSE IF HasAt(cs, i, << "t", "r", "u", "e" >>) THEN Scanned(i + 4)
    ELSE IF HasAt(cs, i, << "f", "a", "l", "s", "e" >>) THEN Scanned(i + 5)
    ELSE JSONDecodeError

\* The elements of an array from the one that starts at i, to the "]".
ScanElements(cs, i) ==
    LET v == ScanValue(cs, i)
        j == SkipWs(cs, v.next)
    IN  IF ~v.ok THEN v
        ELSE IF j > Len(cs) THEN JSONDecodeError
        ELSE IF cs[j] = "]" THEN Scanned(j + 1)
        ELSE IF cs[j] = "," THEN ScanElements(cs, SkipWs(cs, j + 1))
        ELSE JSONDecodeError

\* The members of an object from the one whose key starts at i, to the "}".
ScanMembers(cs, i) ==
    IF i > Len(cs) \/ cs[i] # "\"" THEN JSONDecodeError
    ELSE LET k == ScanString(cs, i)
             c == SkipWs(cs, k.next)
             v == ScanValue(cs, SkipWs(cs, c + 1))
             j == SkipWs(cs, v.next)
         IN  IF ~k.ok THEN k
             ELSE IF c > Len(cs) \/ cs[c] # ":" THEN JSONDecodeError
             ELSE IF ~v.ok THEN v
             ELSE IF j > Len(cs) THEN JSONDecodeError
             ELSE IF cs[j] = "}" THEN Scanned(j + 1)
             ELSE IF cs[j] = "," THEN ScanMembers(cs, SkipWs(cs, j + 1))
             ELSE JSONDecodeError

\* The Python value of the JSON text cs[i..j]; a list or dict is told by the
\* text it was read from.
JsonValue(cs, i, j) ==
    IF cs[i] = "\"" THEN PyValue("str", Text(SubSeq(cs, i + 1, j - 1)))
    ELSE IF cs[i] \in Digits THEN PyValue("int", Text(SubSeq(cs, i, j)))
    ELSE IF cs[i] = "[" THEN PyValue("list", Text(SubSeq(cs, i, j)))
    ELSE IF cs[i] = "{" THEN PyValue("dict", Text(SubSeq(cs, i, j)))
    ELSE IF cs[i] = "n" THEN PyNone
    ELSE PyValue("bool", IF cs[i] = "t" THEN "True" ELSE "False")

\* json.loads that takes no text for JSON
json_loads_none(s) == [value |-> PyNone, err |-> "JSONDecodeError"]

\* json.loads(s) for a str s: the value, or the exception raised.
json_loads(s) ==
    LET cs == Chars(s.repr)
        i == SkipWs(cs, 1)
        v == ScanValue(cs, i)
    IN  IF ~v.ok THEN [value |-> PyNone, err |-> v.err]
        ELSE IF SkipWs(cs, v.next) # Len(cs) + 1
        THEN [value |-> PyNone, err |-> "JSONDecodeError"]
        ELSE [value |-> JsonValue(cs, i, v.next - 1), err |-> ""]

\* ------------------------------------------------------------- extractors

\* str.removeprefix(prefix) of a str that starts with it, and
\* str.split(".")[-1]
RemovePrefix(cs, prefix) == SubSeq(cs, Len(prefix) + 1, Len(cs))

LastPart(cs) ==
    LET dots == { j \in DOMAIN cs : cs[j] = "." }
    IN  IF dots = {} THEN cs ELSE SubSeq(cs, Max(dots) + 1, Len(cs))

\* extract_invoked_agent
extract_invoked_agent(attributes) ==
    AttrGet(attributes, "args.agent_name", PyValue("str", ""))

\* The loop of extract_tool_call over attributes.items().
RECURSIVE ArgumentsInto(_, _)
ArgumentsInto(items, arguments) ==
    IF items = << >> THEN arguments
    ELSE LET key == Chars(Head(items).k)
             new_key == Text(RemovePrefix(key, Chars("args.")))
         IN  ArgumentsInto(Tail(items),
                 IF StartsWith(key, Chars("args.")) /\ new_key # ""
                 THEN DictSet(arguments, new_key, Head(items).v)
                 ELSE arguments)

\* extract_tool_call
extract_tool_call(attributes) ==
    [ tool_name |-> AttrGet(attributes, "tool_name", PyValue("str", "")),
      arguments |-> ArgumentsInto(attributes, << >>) ]

\* The loop of extract_tool_response over attributes.items().
RECURSIVE ResponseInto(_, _)
ResponseInto(items, response) ==
    IF items = << >> THEN response
    ELSE LET key == Chars(Head(items).k)
             new_key == Text(LastPart(key))
         IN  ResponseInto(Tail(items),
                 IF StartsWith(key, Chars("tool_response.")) /\ new_key # ""
                 THEN DictSet(response, new_key, Head(items).v)
                 ELSE response)

\* extract_tool_response
extract_tool_response(attributes) == ResponseInto(attributes, << >>)

\* -------------------------------------------------------------- factories

\* _is_agent_tool_call that takes any call with an args.request
is_agent_tool_call_any_request(attributes) ==
    \/ AttrGet(attributes, "tool_name", PyNone) = PyValue("str", "transfer_to_agent")
    \/ InDict(attributes, "args.request")

\* _is_agent_tool_call
is_agent_tool_call(attributes) ==
    LET args_keys == SelectSeq(DictKeys(attributes),
                               LAMBDA k : StartsWith(Chars(k), Chars("args.")))
    IN  \/ AttrGet(attributes, "tool_name", PyNone) = PyValue("str", "transfer_to_agent")
        \/ args_keys = << "args.request" >>

\* The header every factory fills in.
Header(event_type, acting_agent, conversation_id, timestamp, attributes) ==
    [ acting_agent |-> acting_agent,
      conversation_id |-> conversation_id,
      timestamp |-> timestamp,
      event_type |-> event_type,
      invocation_id |-> AttrGet(attributes, "invocation_id", PyValue("str", "")) ]

\* A record with one more field.
With(rec, field, value) ==
    [ f \in DOMAIN rec \cup { field } |-> IF f = field THEN value ELSE rec[f] ]

Made(event) == [event |-> << event >>, error |-> ""]
Raised(error) == [event |-> << >>, error |-> error]

\* a factory that leaves the discriminator of its class
create_agent_event_untyped(event_type, acting_agent, conversation_id, timestamp, attributes) ==
    Made(Header("agent", acting_agent, conversation_id, timestamp, attributes))

\* create_agent_start_event, create_agent_end_event
create_agent_event(event_type, acting_agent, conversation_id, timestamp, attributes) ==
    Made(Header(event_type, acting_agent, conversation_id, timestamp, attributes))

\* create_llm_call_start_event, create_llm_call_end_event and
\* create_llm_call_error_event, without the content and the usage metadata
\* the extractors make of the llm_request.* and llm_response.* attributes.
create_llm_call_event(event_type, acting_agent, conversation_id, timestamp, attributes) ==
    LET header == Header(event_type, acting_agent, conversation_id, timestamp, attributes)
        model == AttrGet(attributes, "model", PyValue("str", ""))
        error == AttrGet(attributes, "error", PyValue("str", ""))
    IN  Made(
          CASE event_type = "llm_call_start" -> With(header, "model", model)
            [] event_type = "llm_call_error" ->
                 With(With(header, "model", model), "error", error)
            [] OTHER -> header)

\* create_tool_call_start_event
create_tool_call_start_event(acting_agent, conversation_id, timestamp, attributes) ==
    LET tool_call == extract_tool_call(attributes)
    IN  IF is_agent_tool_call(attributes)
        THEN Made(
               With(With(Header("invoke_agent_start", acting_agent,
                                conversation_id, timestamp, attributes),
                         "tool_call", tool_call),
                    "invoked_agent", extract_invoked_agent(attributes)))
        ELSE Made(
               With(Header("tool_call_start", acting_agent, conversation_id,
                           timestamp, attributes),
                    "tool_call", tool_call))

\* create_tool_call_error_event
create_tool_call_error_event(acting_agent, conversation_id, timestamp, attributes) ==
    Made(
      With(With(Header("tool_call_error", acting_agent, conversation_id,
                       timestamp, attributes),
                "tool_call", extract_tool_call(attributes)),
           "error", AttrGet(attributes, "error", PyValue("str", ""))))

\* isinstance(response.get("text"), str)
TextIsStr(response) ==
    InDict(response, "text") /\ DictGetValue(response, "text").type = "str"

\* The unwrap of response["text"] in create_tool_call_end_event: the
\* response after it, or the exception that json.loads raised and the
\* except clause did not name.
Unwrap(response) ==
    LET parsed == json_loads(DictGetValue(response, "text"))
    IN  IF ~TextIsStr(response) THEN [response |-> response, error |-> ""]
        ELSE IF parsed.err = ""
        THEN [response |-> DictSet(response, "text", parsed.value), error |-> ""]
        ELSE IF parsed.err = "JSONDecodeError"
        THEN [response |-> response, error |-> ""]
        ELSE [response |-> response, error |-> parsed.err]

\* create_tool_call_end_event
create_tool_call_end_event(acting_agent, conversation_id, timestamp, attributes) ==
    LET tool_call == extract_tool_call(attributes)
        unwrapped == Unwrap(extract_tool_response(attributes))
        response == unwrapped.response
    IN  IF unwrapped.error # "" THEN Raised(unwrapped.error)
        ELSE IF is_agent_tool_call(attributes)
        THEN Made(
               With(With(With(Header("invoke_agent_end", acting_agent,
                                     conversation_id, timestamp, attributes),
                              "tool_call", tool_call),
                         "response", response),
                    "invoked_agent", extract_invoked_agent(attributes)))
        ELSE Made(
               With(With(Header("tool_call_end", acting_agent, conversation_id,
                                timestamp, attributes),
                         "tool_call", tool_call),
                    "response", response))

\* factory_func(agent_name, conversation_id, start_time, attributes) for the
\* factory EVENT_FACTORY_MAP gives the event type.
create_event(event_type, acting_agent, conversation_id, timestamp, attributes) ==
    CASE event_type \in { "agent_start", "agent_end" } ->
           create_agent_event(event_type, acting_agent, conversation_id,
                              timestamp, attributes)
      [] event_type \in { "llm_call_start", "llm_call_end", "llm_call_error" } ->
           create_llm_call_event(event_type, acting_agent, conversation_id,
                                 timestamp, attributes)
      [] event_type = "tool_call_start" ->
           create_tool_call_start_event(acting_agent, conversation_id,
                                        timestamp, attributes)
      [] event_type = "tool_call_end" ->
           create_tool_call_end_event(acting_agent, conversation_id,
                                      timestamp, attributes)
      [] event_type = "tool_call_error" ->
           create_tool_call_error_event(acting_agent, conversation_id,
                                        timestamp, attributes)

\* The attributes of a call: for each key, in the order of keys, no
\* attribute or the attribute with one of the values.
RECURSIVE AttributeSets(_, _)
AttributeSets(keys, values) ==
    IF keys = << >> THEN { << >> }
    ELSE { head \o rest :
             head \in { << >> } \cup
                      { << [k |-> Head(keys), v |-> x] >> : x \in values[Head(keys)] },
             rest \in AttributeSets(Tail(keys), values) }

Str(repr) == PyValue("str", repr)

\* Tool calls of every argument pattern.
ToolCallKeys ==
    << "tool_name", "args.request", "args.city", "args.agent_name", "args." >>
ToolCallValues ==
    [ k \in Range(ToolCallKeys) |->
        CASE k = "tool_name" -> { Str("transfer_to_agent"), Str("get_weather") }
          [] k = "args.request" -> { Str("Analyze cust001") }
          [] k = "args.city" -> { Str("Munich") }
          [] k = "args.agent_name" -> { Str("weather-agent") }
          [] OTHER -> { Str("x") } ]
ToolCallInputs ==
    [ name : { "before_tool", "after_tool" },
      attributes : AttributeSets(ToolCallKeys, ToolCallValues) ]

\* Tool responses whose text is JSON, is not, or is no str.
JsonTexts ==
    { "{\"a\": 1}", "[1, 2]", "\"ok\"", "7", " null ", "done", "{\"a\": 1",
      "7 7", "", LongDigits }
ResponseKeys ==
    << "tool_name", "tool_response.status", "tool_response.text",
       "tool_response.result.text" >>
ResponseValues ==
    [ k \in Range(ResponseKeys) |->
        CASE k = "tool_name" -> { Str("transfer_to_agent") }
          [] k = "tool_response.status" -> { Str("200") }
          [] k = "tool_response.text" ->
               { Str(t) : t \in JsonTexts } \cup { PyValue("int", "7") }
          [] OTHER -> { Str("done") } ]
ResponseInputs ==
    [ name : { "after_tool" },
      attributes : AttributeSets(ResponseKeys, ResponseValues) ]

\* Spans of every callback, with and without the name of the transfer tool.
KindInputs ==
    [ name : { EventPrefixes[i].prefix : i \in DOMAIN EventPrefixes },
      attributes : AttributeSets(<< "tool_name" >>,
                                 [ k \in { "tool_name" } |->
                                     { Str("transfer_to_agent") } ]) ]

\* _create_communication_event for a span that passed the checks before it:
\* the factory of the span's event type is called.
CreateEvent(in) ==
    LET out == create_event(determine_event_type(in.name), "a1", "c1",
                            [year |-> 2024, zone |-> "Z"], in.attributes)
    IN  /\ factoryIn' = in
        /\ factoryOut' = out
        /\ typesSeen' = typesSeen \cup { e.event_type : e \in Range(out.event) }
        /\ UNCHANGED nonFactoryVars

NextToolCall == \E in \in ToolCallInputs : CreateEvent(in)
SpecToolCall == Init /\ [][NextToolCall]_vars

NextToolResponse == \E in \in ResponseInputs : CreateEvent(in)
SpecToolResponse == Init /\ [][NextToolResponse]_vars

NextKinds == \E in \in KindInputs : CreateEvent(in)
SpecKinds == Init /\ [][NextKinds]_vars

\* ------------------------------------------------- _process_single_span

\* The keys of EVENT_FACTORY_MAP.
EVENT_FACTORY_MAP ==
    { "agent_start", "agent_end", "llm_call_start", "llm_call_end",
      "llm_call_error", "tool_call_start", "tool_call_end", "tool_call_error" }

\* _create_communication_event with the factories of backend/src/events.py,
\* to the header of the event they build: a tool call of the tool
\* send_message becomes an agent invocation, and create_tool_call_end_event
\* unwraps the text of the response as the factory of the application does.
create_communication_event(event_type, agent_name, conversation_id, attributes, start_time) ==
    LET tool_name == AttrGet(attributes, "tool_name", PyNone)
        invoke == tool_name = PyValue("str", "send_message")
        unwrapped == Unwrap(extract_tool_response(attributes))
    IN  IF event_type \notin EVENT_FACTORY_MAP
        THEN Raised("ValueError: Unknown event type")
        ELSE IF event_type = "tool_call_end" /\ unwrapped.error # ""
        THEN Raised(unwrapped.error)
        ELSE Made([ acting_agent |-> agent_name,
                    conversation_id |-> conversation_id,
                    timestamp |-> start_time,
                    event_type |->
                        IF event_type = "tool_call_start" /\ invoke
                        THEN "invoke_agent_start"
                        ELSE IF event_type = "tool_call_end" /\ invoke
                        THEN "invoke_agent_end"
                        ELSE event_type ])

\* return None
Skipped == [event |-> << >>, error |-> ""]

\* _process_single_span: the event or None, or the exception that left it.
process_single_span(sp) ==
    LET attributes == extract_span_attributes(sp)
        flag == AttrGet(attributes, "agent_communication_dashboard",
                        PyValue("bool", "False"))
        conversation_id == AttrGet(attributes, "conversation_id", PyNone)
        agent_name == AttrGet(attributes, "agent_name", PyNone)
        event_type == determine_event_type(sp.name)
        iso_timestamp == convert_timestamp_to_iso(sp.start_time_unix_nano)
    IN  IF Falsy(flag) THEN Skipped
        ELSE IF Falsy(conversation_id) \/ Falsy(agent_name) THEN Skipped
        ELSE IF event_type = None THEN Skipped
        ELSE IF iso_timestamp = << >> THEN Skipped
        ELSE create_communication_event(event_type, agent_name.repr,
                 conversation_id.repr, attributes, iso_timestamp[1])

\* The spans a client may send: a name, a start instant, and at most one
\* attribute of each of the three keys the preprocessor reads.
SpanNames == { "before_agent", "AFTER_TOOL", "cleanup" }
TimestampSet == { 1970, 2024, UINT64_MAX_YEAR }

FlagValues ==
    { AnyValue("bool_value", "True"), AnyValue("bool_value", "False"),
      AnyValue("string_value", "false"), AnyValue("string_value", ""),
      AnyValue("int_value", "1"), AnyValue("int_value", "0"),
      AnyValue("array_value", "[]") }
ConversationValues ==
    { AnyValue("string_value", "c1"), AnyValue("string_value", ""),
      AnyValue("int_value", "7"), AnyValue("unset", "") }
AgentValues == { AnyValue("string_value", "a1"), AnyValue("string_value", "") }

\* No attribute, or the one attribute of the key with each of the values.
Attr(key, values) ==
    { << >> } \cup { << [key |-> key, value |-> v] >> : v \in values }

\* A span that passes every check, with more attributes.
GoodSpan(name, more) ==
    [ name |-> name, start_time_unix_nano |-> 2024,
      attributes |->
        << [key |-> "agent_communication_dashboard",
            value |-> AnyValue("bool_value", "True")],
           [key |-> "conversation_id", value |-> AnyValue("string_value", "c1")],
           [key |-> "agent_name", value |-> AnyValue("string_value", "a1")] >>
        \o more ]

\* Spans of tool calls with a response text.
ToolSpans ==
    { GoodSpan(n, tool \o text) :
        n \in { "before_tool", "AFTER_TOOL" },
        tool \in Attr("tool_name", { AnyValue("string_value", "send_message") }),
        text \in Attr("tool_response.text",
                      { AnyValue("string_value", "{\"a\": 1}"),
                        AnyValue("string_value", "done"),
                        AnyValue("string_value", LongDigits),
                        AnyValue("int_value", "7") }) }

SpanSet ==
    { [ name |-> n, start_time_unix_nano |-> t, attributes |-> f \o c \o a ] :
        n \in SpanNames, t \in TimestampSet,
        f \in Attr("agent_communication_dashboard", FlagValues),
        c \in Attr("conversation_id", ConversationValues),
        a \in Attr("agent_name", AgentValues) }
    \cup ToolSpans

\* One call of _process_single_span.
ProcessSpan(sp) ==
    /\ span' = << sp >>
    /\ \E result \in { process_single_span(sp) } :
         /\ spanEvent' = result.event
         /\ spanError' = result.error
    /\ UNCHANGED nonSpanVars

NextSpan == \E sp \in SpanSet : ProcessSpan(sp)

SpecSpan == Init /\ [][NextSpan]_vars

\* ------------------------------------------------------- preprocess_spans

MaxResources == 2    \* most resource_spans of a request
MaxScopes == 2       \* most scope_spans of one resource_spans
MaxSpans == 2        \* most spans of one scope_spans

\* The spans of the requests: two that yield different events, one that is
\* skipped for its name and one whose start instant is the last a span can
\* carry.
BatchSpans ==
    { GoodSpan("before_agent", << >>), GoodSpan("AFTER_TOOL", << >>),
      GoodSpan("cleanup", << >>),
      [ GoodSpan("before_agent", << >>) EXCEPT
          !.start_time_unix_nano = UINT64_MAX_YEAR ] }

SeqsUpTo(S, n) == UNION { [1..k -> S] : k \in 0..n }

\* The number of spans of a request.
RECURSIVE SumLen(_)
SumLen(lists) ==
    IF lists = << >> THEN 0 ELSE Len(Head(lists)) + SumLen(Tail(lists))
RECURSIVE SpanCount(_)
SpanCount(req) ==
    IF req = << >> THEN 0 ELSE SumLen(Head(req)) + SpanCount(Tail(req))

MaxRequestSpans == 3 \* most spans of a request

ExportRequests ==
    { req \in SeqsUpTo(SeqsUpTo(SeqsUpTo(BatchSpans, MaxSpans), MaxScopes),
                       MaxResources) :
        SpanCount(req) <= MaxRequestSpans }

\* events.insert(0, event)
ListPrepend(list, x) == << x >> \o list

\* events.append(event)
ListAppend(list, x) == Append(list, x)

\* The three for loops of preprocess_spans: the places of the spans of the
\* request in the order the loops reach them, from the p-th span of the s-th
\* scope_spans of the r-th resource_spans on.
RECURSIVE SpansLoop(_, _, _, _)
SpansLoop(req, r, s, p) ==
    IF r > Len(req) THEN << >>
    ELSE IF s > Len(req[r]) THEN SpansLoop(req, r + 1, 1, 1)
    ELSE IF p > Len(req[r][s]) THEN SpansLoop(req, r, s + 1, 1)
    ELSE << << r, s, p >> >> \o SpansLoop(req, r, s, p + 1)

\* The body of the loops for the span at one place: before is the list so
\* far, with the place of the span of each event, and result is what
\* _process_single_span did.  An exception ends the call.
AfterSpan(before, at, result) ==
    IF before.error # "" THEN before
    ELSE IF result.error # ""
    THEN [events |-> << >>, places |-> << >>, error |-> result.error]
    ELSE IF result.event = << >> THEN before
    ELSE [ events |-> ListAppend(before.events, result.event[1]),
           places |-> ListAppend(before.places, at),
           error |-> "" ]

SpanAt(req, at) == req[at[1]][at[2]][at[3]]

\* The loops run for the first n spans.
RECURSIVE EventsAfter(_, _, _)
EventsAfter(req, places, n) ==
    IF n = 0 THEN [events |-> << >>, places |-> << >>, error |-> ""]
    ELSE AfterSpan(EventsAfter(req, places, n - 1), places[n],
                   process_single_span(SpanAt(req, places[n])))

\* preprocess_spans
preprocess_spans(req) ==
    EventsAfter(req, SpansLoop(req, 1, 1, 1), Len(SpansLoop(req, 1, 1, 1)))

\* A parsed request reaches the driver.
Export(req) ==
    /\ bpc = "idle"
    /\ export_request' = req
    /\ bpc' = "called"
    /\ UNCHANGED << events, eventSpans, batchError, nonBatchVars >>

\* One call of preprocess_spans.
PreprocessSpans ==
    /\ bpc = "called"
    /\ \E result \in { preprocess_spans(export_request) } :
         /\ events' = result.events
         /\ eventSpans' = result.places
         /\ batchError' = result.error
    /\ bpc' = "returned"
    /\ UNCHANGED << export_request, nonBatchVars >>

\* The caller is done with the list.
BatchDone ==
    /\ bpc = "returned"
    /\ bpc' = "idle"
    /\ export_request' = << >>
    /\ events' = << >>
    /\ eventSpans' = << >>
    /\ batchError' = ""
    /\ UNCHANGED nonBatchVars

NextBatch ==
    \/ \E req \in ExportRequests : Export(req)
    \/ PreprocessSpans
    \/ BatchDone

SpecBatch == Init /\ [][NextBatch]_vars

\* --------------------------------------------------------- receive_traces

HTTP_200_OK == 200
HTTP_400_BAD_REQUEST == 400
HTTP_415_UNSUPPORTED_MEDIA_TYPE == 415
\* what the server answers when the handler raised
HTTP_500_INTERNAL_SERVER_ERROR == 500

\* sub in str
Contains(cs, sub) ==
    \E i \in 0..(Len(cs) - Len(sub)) : \A j \in DOMAIN sub : cs[i + j] = sub[j]

\* A body: the bytes of an ExportTraceServiceRequest in one of the two
\* formats, or bytes that are neither, as they are or as a gzip stream.
Body(wrap, format, req) == [wrap |-> wrap, format |-> format, request |-> req]

\* gzip.decompress with every compressed body
gzip_decompress_any(body) == [body |-> [body EXCEPT !.wrap = "plain"], error |-> ""]

\* gzip.decompress: the bytes inside the stream; bytes that are no gzip
\* stream raise BadGzipFile.
gzip_decompress(body) ==
    IF body.wrap = "gzip"
    THEN [body |-> [body EXCEPT !.wrap = "plain"], error |-> ""]
    ELSE [body |-> body, error |-> "BadGzipFile"]

\* json_format.Parse(body.decode("utf-8"), export_request): a gzip stream
\* is no UTF-8 text, and only the JSON of a request parses.
json_format_Parse(body) ==
    IF body.wrap = "gzip" THEN [request |-> << >>, error |-> "UnicodeDecodeError"]
    ELSE IF body.format = "json" THEN [request |-> body.request, error |-> ""]
    ELSE [request |-> << >>, error |-> "ParseError"]

\* export_request.ParseFromString(body): only the serialization of a
\* request parses.
ParseFromString(body) ==
    IF body.wrap = "plain" /\ body.format = "protobuf"
    THEN [request |-> body.request, error |-> ""]
    ELSE [request |-> << >>, error |-> "DecodeError"]

HttpResponse(status_code, content, media_type) ==
    [status_code |-> status_code, content |-> content, media_type |-> media_type]

\* An exception that leaves receive_traces.
Unhandled(error) ==
    [ response |-> HttpResponse(HTTP_500_INTERNAL_SERVER_ERROR, error, ""),
      events |-> << >> ]

Returns(resp) == [response |-> resp, events |-> << >>]

\* The body after the gzip layer: the bytes to parse, or its failure.
Decompressed(content_encoding, body) ==
    IF Contains(content_encoding, Chars("gzip"))
    THEN gzip_decompress(body)
    ELSE [body |-> body, error |-> ""]

\* The parse by content type: the request, the exception json_format.Parse
\* raised, or the response of the protobuf and the else branch.
Parsed(content_type, body) ==
    IF Contains(content_type, Chars("application/json"))
    THEN [request |-> json_format_Parse(body).request,
          raised |-> json_format_Parse(body).error, status_code |-> 0,
          content |-> ""]
    ELSE IF Contains(content_type, Chars("application/x-protobuf"))
    THEN [request |-> ParseFromString(body).request, raised |-> "",
          status_code |-> IF ParseFromString(body).error = "" THEN 0
                          ELSE HTTP_400_BAD_REQUEST,
          content |-> "Invalid protobuf data"]
    ELSE [request |-> << >>, raised |-> "",
          status_code |-> HTTP_415_UNSUPPORTED_MEDIA_TYPE,
          content |->
            "Unsupported Content-Type. Use application/json or application/x-protobuf."]

\* receive_traces from preprocess_spans on; result is what it did.
AfterPreprocess(content_type, result) ==
    IF result.error # "" THEN Unhandled(result.error)
    ELSE [ response |->
             IF Contains(content_type, Chars("application/json"))
             THEN HttpResponse(HTTP_200_OK, "{}", "application/json")
             ELSE HttpResponse(HTTP_200_OK, "", "application/x-protobuf"),
           events |-> result.events ]

\* receive_traces from the parse on.
AfterDecompress(content_type, parsed) ==
    IF parsed.raised # "" THEN Unhandled(parsed.raised)
    ELSE IF parsed.status_code # 0
    THEN Returns(HttpResponse(parsed.status_code, parsed.content, ""))
    ELSE AfterPreprocess(content_type, preprocess_spans(parsed.request))

\* receive_traces: the response, or the exception that left it, and the
\* events it handed to distribute_events.
receive_traces(content_type, decompressed) ==
    IF decompressed.error # ""
    THEN Returns(HttpResponse(HTTP_400_BAD_REQUEST, "Invalid gzip data", ""))
    ELSE AfterDecompress(content_type, Parsed(content_type, decompressed.body))

ContentTypes ==
    { "application/json", "Application/JSON; charset=utf-8",
      "application/x-protobuf", "text/plain", "" }

ContentEncodings == { "", "gzip", "GZIP", "identity" }

\* The requests of the bodies: empty, one span that yields an event, one
\* that is skipped, both in two scope_spans, and one whose response text is
\* an integer of more digits than int() converts.
HttpExportRequests ==
    { << >>,
      << << << GoodSpan("before_agent", << >>) >> >> >>,
      << << << GoodSpan("cleanup", << >>) >> >> >>,
      << << << GoodSpan("cleanup", << >>) >>,
            << GoodSpan("before_agent", << >>), GoodSpan("AFTER_TOOL", << >>) >> >> >>,
      << << << GoodSpan("AFTER_TOOL",
                 << [key |-> "tool_response.text",
                     value |-> AnyValue("string_value", LongDigits)] >>) >> >> >> }

Bodies ==
    { Body(wrap, format, req) :
        wrap \in { "plain", "gzip" }, format \in { "json", "protobuf" },
        req \in HttpExportRequests }
    \cup { Body(wrap, "garbage", << >>) : wrap \in { "plain", "gzip" } }

HttpRequests ==
    [ content_type : ContentTypes, content_encoding : ContentEncodings,
      body : Bodies ]

\* A request is posted: await request.body() returned.
Post(req) ==
    /\ hpc = "idle"
    /\ http_request' = << req >>
    /\ hpc' = "posted"
    /\ UNCHANGED << http_response, distributed, sendFailed, nonHttpVars >>

\* receive_traces runs to its end.  send_message catches the failure of a
\* send, so a failure while the events are distributed changes nothing of
\* the answer.
ReceiveTraces ==
    /\ hpc = "posted"
    /\ \E out \in
           { receive_traces(
               Lower(Chars(http_request[1].content_type)),
               Decompressed(Lower(Chars(http_request[1].content_encoding)),
                            http_request[1].body)) } :
         /\ http_response' = out.response
         /\ distributed' = out.events
         /\ \E failed \in BOOLEAN :
              sendFailed' = (failed /\ out.events # << >>)
    /\ hpc' = "responded"
    /\ UNCHANGED << http_request, nonHttpVars >>

\* The response is on its way; the next request.
HttpDone ==
    /\ hpc = "responded"
    /\ hpc' = "idle"
    /\ http_request' = << >>
    /\ http_response' = NoResponse
    /\ distributed' = << >>
    /\ sendFailed' = FALSE
    /\ UNCHANGED nonHttpVars

NextHttp ==
    \/ \E req \in HttpRequests : Post(req)
    \/ ReceiveTraces
    \/ HttpDone

SpecHttp == Init /\ [][NextHttp]_vars

\* ---------------------------------------------- FilterCriteria on its own

\* dict.get(key): the value, or None
ParamGet(params, key) ==
    IF InDict(params, key) THEN DictGetValue(params, key) ELSE None

\* from_query_params with an empty value read as no value
from_query_params_or_none(params) ==
    FilterCriteria(
        IF ParamGet(params, "conversation_id") = "" THEN None
        ELSE ParamGet(params, "conversation_id"),
        IF ParamGet(params, "workforce") = "" THEN None
        ELSE ParamGet(params, "workforce"))

\* FilterCriteria.from_query_params
from_query_params(params) ==
    FilterCriteria(ParamGet(params, "conversation_id"), ParamGet(params, "workforce"))

\* The query strings of /ws: each of the two parameters absent, empty or
\* with a value.
QueryParams ==
    { c \o w :
        c \in { << >> } \cup
              { << [k |-> "conversation_id", v |-> x] >> : x \in { "", "c1", "c2" } },
        w \in { << >> } \cup
              { << [k |-> "workforce", v |-> x] >> : x \in { "", "w1", "W1" } } }

\* The events: a conversation id, and a workforce name that may be absent.
MatchEvents ==
    [ conversation_id : { "c1", "c2" }, workforce_name : { None, "", "w1", "W1" } ]

\* A connection with these query parameters is held, and send_message tests
\* its filter on an event.
MatchEvent(params, event) ==
    /\ query_params' = params
    /\ matchFilter' = from_query_params(params)
    /\ matchEvent' = << event >>
    /\ matched' = IF Matches(from_query_params(params), event) THEN "True" ELSE "False"
    /\ UNCHANGED nonMatchVars

NextMatchEvent == \E params \in QueryParams : \E event \in MatchEvents : MatchEvent(params, event)

SpecMatch == Init /\ [][NextMatchEvent]_vars

\* ------------------------------------------- websocket_endpoint: frames

\* The text frames a client sends.
ClientFrames ==
    { "ping", "{\"type\": \"update_filter\"}", "{\"a\": 1}", "{\"a\": 1", LongFrame }

\* message.get("type") == "update_filter", the dict being told by its text
IsUpdateFilter(message) == message.repr = "{\"type\": \"update_filter\"}"

\* The body of the receive loop for one frame: the frame is ignored, or
\* logged as a filter update, or json.loads raises what the except clause
\* does not name.
HandleFrame(starts, loaded) ==
    IF ~starts THEN "ignored"
    ELSE IF loaded.err = "JSONDecodeError" THEN "ignored"
    ELSE IF loaded.err # "" THEN loaded.err
    ELSE IF IsUpdateFilter(loaded.value) THEN "logged"
    ELSE "ignored"

handle_frame(data) ==
    HandleFrame(StartsWith(Chars(data), << "{" >>), json_loads(PyValue("str", data)))

\* receive_text returns a frame of the client and the loop body runs; an
\* exception other than WebSocketDisconnect leaves the endpoint through its
\* finally clause.
ClientFrame(s, data) ==
    /\ wpc[s] = "live"
    /\ sink[s] = "up"
    /\ \E outcome \in { handle_frame(data) } :
         /\ frameSeen' = [frameSeen EXCEPT ![s] = outcome]
         /\ IF outcome \in { "ignored", "logged" }
            THEN UNCHANGED fabricVars
            ELSE FinallyClause(s)
    /\ UNCHANGED nonFabricFrameVars

\* Subscribers that connect, send frames and go away.
NextFrames ==
    \/ \E s \in Sinks : \E fc \in FilterSet : Connect(s, fc)
    \/ \E s \in Sinks : \E data \in ClientFrames : ClientFrame(s, data)
    \/ \E s \in Sinks : ClientClose(s)
    \/ \E s \in Sinks : EndpointExit(s)

SpecFrames == Init /\ [][NextFrames]_vars

\* --------------------------------------------------- LLM content extractors
\*
\* backend/src/agent_monitor/utils/extractors.py.  A key is held as the
\* sequence of its characters; the attributes dict is the sequence of its
\* items in insertion order, which is the order attributes.items() yields.

\* The most attributes of a span that the extractors are called with.
MaxAttributes == 4

\* The key made of the given segments joined by ".".
RECURSIVE Dotted(_)
Dotted(segments) ==
    IF Len(segments) = 1 THEN Chars(Head(segments))
    ELSE Chars(Head(segments)) \o << "." >> \o Dotted(Tail(segments))

\* str.endswith
EndsWith(cs, suffix) ==
    /\ Len(suffix) <= Len(cs)
    /\ SubSeq(cs, Len(cs) - Len(suffix) + 1, Len(cs)) = suffix

\* str.replace(old, new), from left to right.
RECURSIVE Replace(_, _, _)
Replace(cs, old, new) ==
    IF cs = << >> THEN cs
    ELSE IF StartsWith(cs, old)
    THEN new \o Replace(RemovePrefix(cs, old), old, new)
    ELSE << Head(cs) >> \o Replace(Tail(cs), old, new)

\* pattern.fullmatch(key) for a pattern  head \d+ tail  (or head (\d+)
\* tail): the digits between head and tail when the key is made of head,
\* one or more digits and tail, none when it does not match.
FullMatch(key, head, tail) ==
    LET number == SubSeq(key, Len(head) + 1, Len(key) - Len(tail))
    IN  IF /\ StartsWith(key, head)
           /\ EndsWith(key, tail)
           /\ Len(key) > Len(head) + Len(tail)
           /\ \A i \in DOMAIN number : number[i] \in Digits
        THEN << number >> ELSE << >>

RequestPrefix == Dotted(<< "llm_request", "content" >>) \o << "." >>
RequestParts == Dotted(<< "llm_request", "content", "parts" >>) \o << "." >>
ResponsePrefix == Dotted(<< "llm_response", "content" >>) \o << "." >>
ResponseParts == Dotted(<< "llm_response", "content", "parts" >>) \o << "." >>

\* _PATTERN_TEXT_LLM_REQUEST, _PATTERN_FUNCTION_RESPONSE_LLM_REQUEST,
\* _PATTERN_TEXT_LLM_RESPONSE and _PATTERN_FUNCTION_CALL_LLM_RESPONSE
PATTERN_TEXT_LLM_REQUEST(key) ==
    FullMatch(key, RequestParts, << "." >> \o Chars("text"))
PATTERN_FUNCTION_RESPONSE_LLM_REQUEST(key) ==
    FullMatch(key, RequestParts,
              << "." >> \o Dotted(<< "function_response", "name" >>))
PATTERN_TEXT_LLM_RESPONSE(key) ==
    FullMatch(key, ResponseParts, << "." >> \o Chars("text"))
PATTERN_FUNCTION_CALL_LLM_RESPONSE(key) ==
    FullMatch(key, ResponseParts,
              << "." >> \o Dotted(<< "function_call", "name" >>))

\* The dataclasses of models/content.py.
TextContent(text, thought) ==
    [class |-> "TextContent", text |-> text, thought |-> thought]
ToolResponse(tool_name, response) ==
    [class |-> "ToolResponse", tool_name |-> tool_name, response |-> response]
ToolCall(tool_name, arguments) ==
    [class |-> "ToolCall", tool_name |-> tool_name, arguments |-> arguments]
LlmRequestContent == [role |-> PyValue("str", "user"), content |-> << >>]
LlmResponseContent == [role |-> PyValue("str", "model"), parts |-> << >>]

\* The inner loop over attributes.items(): the items whose key starts with
\* prefix and is longer than it, stored under the rest of the key.
RECURSIVE SubItems(_, _, _)
SubItems(attributes, prefix, d) ==
    IF attributes = << >> THEN d
    ELSE LET sub_key == Head(attributes).k
             new_key == RemovePrefix(sub_key, prefix)
         IN  SubItems(Tail(attributes), prefix,
                      IF StartsWith(sub_key, prefix) /\ new_key # << >>
                      THEN DictSet(d, new_key, Head(attributes).v) ELSE d)

\* The first loop of extract_llm_request_content from the item at `items`
\* on: [content, tool_responses] at its end.
RECURSIVE RequestItems(_, _, _)
RequestItems(items, content, tool_responses) ==
    IF items = << >>
    THEN [content |-> content, tool_responses |-> tool_responses]
    ELSE LET key == Head(items).k
             value == Head(items).v
             match_func == PATTERN_FUNCTION_RESPONSE_LLM_REQUEST(key)
         IN  IF ~StartsWith(key, RequestPrefix)
             THEN RequestItems(Tail(items), content, tool_responses)
             ELSE IF PATTERN_TEXT_LLM_REQUEST(key) # << >>
             THEN RequestItems(Tail(items),
                      [content EXCEPT !.content =
                          Append(@, TextContent(value, PyValue("bool", "False")))],
                      tool_responses)
             ELSE IF match_func # << >>
             THEN RequestItems(Tail(items), content,
                      DictSet(tool_responses, match_func[1],
                              ToolResponse(value, << >>)))
             ELSE IF EndsWith(key, << "." >> \o Chars("role"))
             THEN RequestItems(Tail(items), [content EXCEPT !.role = value],
                               tool_responses)
             ELSE RequestItems(Tail(items), content, tool_responses)

\* The second loop: every tool response gets the items under its prefix and
\* is appended to content.content, in the order of the tool_responses dict.
RECURSIVE AppendToolResponses(_, _, _)
AppendToolResponses(tool_responses, attributes, content) ==
    IF tool_responses = << >> THEN content
    ELSE LET number == Head(tool_responses).k
             prefix == RequestParts \o number \o << "." >>
                          \o Dotted(<< "function_response", "response" >>)
                          \o << "." >>
             tool_response ==
                 [ Head(tool_responses).v EXCEPT
                     !.response = SubItems(attributes, prefix, << >>) ]
         IN  AppendToolResponses(Tail(tool_responses), attributes,
                 [content EXCEPT !.content = Append(@, tool_response)])

\* extract_llm_request_content: the texts in the order of the items, then
\* the tool responses.
extract_llm_request_content(attributes) ==
    LET first == RequestItems(attributes, LlmRequestContent, << >>)
    IN  AppendToolResponses(first.tool_responses, attributes, first.content)

\* The first loop of extract_llm_response_content; content is None (no
\* element) until a key with the prefix is met.
RECURSIVE ResponseItems(_, _, _, _)
ResponseItems(items, attributes, content, tool_calls) ==
    IF items = << >>
    THEN [content |-> content, tool_calls |-> tool_calls]
    ELSE LET key == Head(items).k
             value == Head(items).v
             made == IF content = << >> THEN LlmResponseContent
                     ELSE content[1]
             match_func == PATTERN_FUNCTION_CALL_LLM_RESPONSE(key)
             thought == AttrGet(attributes,
                                Replace(key, Chars("text"), Chars("thought")),
                                PyValue("bool", "False"))
         IN  IF ~StartsWith(key, ResponsePrefix)
             THEN ResponseItems(Tail(items), attributes, content, tool_calls)
             ELSE IF PATTERN_TEXT_LLM_RESPONSE(key) # << >>
             THEN ResponseItems(Tail(items), attributes,
                      << [made EXCEPT !.parts =
                             Append(@, TextContent(value, thought))] >>,
                      tool_calls)
             ELSE IF match_func # << >>
             THEN ResponseItems(Tail(items), attributes, << made >>,
                      DictSet(tool_calls, match_func[1], ToolCall(value, << >>)))
             ELSE IF EndsWith(key, << "." >> \o Chars("role"))
             THEN ResponseItems(Tail(items), attributes,
                                << [made EXCEPT !.role = value] >>, tool_calls)
             ELSE ResponseItems(Tail(items), attributes, << made >>, tool_calls)

RECURSIVE AppendToolCalls(_, _, _)
AppendToolCalls(tool_calls, attributes, content) ==
    IF tool_calls = << >> THEN content
    ELSE LET number == Head(tool_calls).k
             prefix == ResponseParts \o number \o << "." >>
                          \o Dotted(<< "function_call", "args" >>) \o << "." >>
             tool_call ==
                 [ Head(tool_calls).v EXCEPT
                     !.arguments = SubItems(attributes, prefix, << >>) ]
         IN  AppendToolCalls(Tail(tool_calls), attributes,
                 [content EXCEPT !.parts = Append(@, tool_call)])

extract_llm_response_content(attributes) ==
    LET first == ResponseItems(attributes, attributes, << >>, << >>)
    IN  IF first.content = << >> THEN LlmResponseContent
        ELSE AppendToolCalls(first.tool_calls, attributes, first.content[1])

\* The attributes of an LLM span: the text of part n and the name of the
\* tool of part n are the string n, so that a part of the result tells the
\* index of the part it was made of.
Item(segments, value) == [k |-> Dotted(segments), v |-> value]

RequestAttributeItems ==
    { Item(<< "llm_request", "content", "role" >>, PyValue("str", "model")),
      Item(<< "llm_request", "content", "parts", "0", "text" >>,
           PyValue("str", "0")),
      Item(<< "llm_request", "content", "parts", "2", "text" >>,
           PyValue("str", "2")),
      Item(<< "llm_request", "content", "parts", "1", "function_response",
              "name" >>, PyValue("str", "1")),
      Item(<< "llm_request", "content", "parts", "3", "function_response",
              "name" >>, PyValue("str", "3")),
      Item(<< "llm_request", "content", "parts", "1", "function_response",
              "response", "status" >>, PyValue("str", "ok")) }

ResponseAttributeItems ==
    { Item(<< "llm_response", "content", "role" >>, PyValue("str", "user")),
      Item(<< "llm_response", "content", "parts", "0", "text" >>,
           PyValue("str", "0")),
      Item(<< "llm_response", "content", "parts", "0", "thought" >>,
           PyValue("bool", "True")),
      Item(<< "llm_response", "content", "parts", "2", "text" >>,
           PyValue("str", "2")),
      Item(<< "llm_response", "content", "parts", "1", "function_call",
              "name" >>, PyValue("str", "1")),
      Item(<< "llm_response", "content", "parts", "3", "function_call",
              "name" >>, PyValue("str", "3")),
      Item(<< "llm_response", "content", "parts", "1", "function_call",
              "args", "city" >>, PyValue("str", "ok")) }

\* Every dict of at most MaxAttributes of the items, in every order.
AttributeDicts(items) ==
    { d \in SeqsUpTo(items, MaxAttributes) :
        \A i, j \in DOMAIN d : i # j => d[i] # d[j] }

ExtractRequestContent(attributes) ==
    /\ cpc = "idle"
    /\ llm_attributes' = attributes
    /\ llm_content' = extract_llm_request_content(attributes)
    /\ cpc' = "extract_llm_request_content"
    /\ UNCHANGED nonContentVars

ExtractResponseContent(attributes) ==
    /\ cpc = "idle"
    /\ llm_attributes' = attributes
    /\ llm_content' = extract_llm_response_content(attributes)
    /\ cpc' = "extract_llm_response_content"
    /\ UNCHANGED nonContentVars

ContentDone ==
    /\ cpc # "idle"
    /\ llm_attributes' = << >>
    /\ llm_content' = << >>
    /\ cpc' = "idle"
    /\ UNCHANGED nonContentVars

NextContent ==
    \/ \E a \in AttributeDicts(RequestAttributeItems) : ExtractRequestContent(a)
    \/ \E a \in AttributeDicts(ResponseAttributeItems) : ExtractResponseContent(a)
    \/ ContentDone

SpecContent == Init /\ [][NextContent]_vars

\* ----------------------------------------------------------------- claims

\* Reading the history.
EventOfTag(t) == batch[t[1]][t[2]]
IsPublished(t) == t[2] \in DOMAIN batch[t[1]]
Enter(t) == [op |-> "enter", tag |-> t]
Return(t) == [op |-> "return", tag |-> t]
Entered(t) == \E i \in DOMAIN log : log[i] = Enter(t)
Returned(t) == \E i \in DOMAIN log : log[i] = Return(t)
LogPos(x) == CHOOSE i \in DOMAIN log : log[i] = x
FramePos(s, t) == CHOOSE i \in DOMAIN received[s] : received[s][i] = t
Got(s, t) == \E i \in DOMAIN received[s] : received[s][i] = t
EventFrames(s) == { i \in DOMAIN received[s] : received[s][i] # Welcome }

\* C1: a subscriber whose filter has conversation_id = c set is delivered
\* only frames of events whose conversation_id is c.
C1_ConversationFilter ==
    \A s \in Sinks :
        filt[s].conversation_id # None =>
            \A i \in EventFrames(s) :
                EventOfTag(received[s][i]).conversation_id
                    = filt[s].conversation_id

\* A subscriber filtering on c1 has received an event while an event of the
\* other conversation was published to the set it was in.
C1_Witness ==
    \E s \in Sinks : \E t \in Tags :
        /\ filt[s].conversation_id = "c1"
        /\ EventFrames(s) # {}
        /\ Returned(t)
        /\ s \in subsAtEntry[t]
        /\ EventOfTag(t).conversation_id = "c2"

C3_FailureCaughtAndEvicted ==
    [][ \A t \in Tags :
          (~Returned(t) /\ Returned(t)' /\ failedTo'[t] # {}) =>
              /\ failedTo'[t] \cap Members(connections') = {}
              /\ \A s \in subsAtEntry'[t] :
                    Matches(filt'[s], EventOfTag(t)')
                        => Count(attempts'[t], s) = 1 ]_vars

\* A call has returned in which the send to one sink raised and a sink behind
\* it in the list was sent the event and holds its frame.
C3_Witness ==
    \E t \in Tags :
        /\ Returned(t)
        /\ \E i, j \in DOMAIN attempts[t] :
              /\ i < j
              /\ attempts[t][i] \in failedTo[t]
              /\ attempts[t][i] \notin Members(connections)
              /\ Got(attempts[t][j], t)

\* C4: a subscriber that is in the set from the entry of a send_message call
\* to its return and whose filter matches is sent the event exactly once by
\* that call, whatever connects and disconnects run while the call is
\* suspended; no call sends twice to one sink.
C4_ChurnNeitherSkipsNorRepeats ==
    \A t \in Tags :
        /\ \A s \in Sinks : Count(attempts[t], s) <= 1
        /\ Returned(t) =>
              \A s \in present[t] :
                  Matches(filt[s], EventOfTag(t)) => Count(attempts[t], s) = 1

\* A call returned during which a connect or a disconnect ran, and a sink
\* subscribed throughout holds its frame.
C4_Witness ==
    \E t \in Tags :
        /\ Returned(t)
        /\ churn[t]
        /\ present[t] # subsAtEntry[t]
        /\ \E s \in present[t] : Got(s, t)

\* C5: the welcome frame is the first frame on every sink, and there is one.
C5_WelcomeFirst ==
    \A s \in Sinks :
        /\ received[s] # << >> => received[s][1] = Welcome
        /\ Count(received[s], Welcome) <= 1

\* A sink connected while a publication was in progress and holds, behind
\* its welcome frame, the frame of that publication.
C5_Witness ==
    \E s \in Sinks : \E t \in inFlight[s] :
        /\ received[s][1] = Welcome
        /\ Got(s, t)

C7_BatchOrder ==
    \A r \in Requests : \A i, j \in DOMAIN batch[r] :
        i < j =>
            /\ Entered(<<r, j>>) =>
                  /\ Returned(<<r, i>>)
                  /\ LogPos(Return(<<r, i>>)) < LogPos(Enter(<<r, j>>))
            /\ \A s \in Sinks :
                  (Got(s, <<r, i>>) /\ Got(s, <<r, j>>))
                      => FramePos(s, <<r, i>>) < FramePos(s, <<r, j>>)

\* A subscriber holds both frames of a request of two events.
C7_Witness ==
    \E r \in Requests : \E s \in Sinks :
        /\ Len(batch[r]) = 2
        /\ Got(s, <<r, 1>>) /\ Got(s, <<r, 2>>)

\* C8: no sink is sent, or holds, more than one frame of one publication.
C8_AtMostOnce ==
    \A s \in Sinks : \A t \in Tags :
        /\ Count(received[s], t) <= 1
        /\ Count(attempts[t], s) <= 1

\* A sink connected while the publications of two requests were in progress
\* and holds one frame of each.
C8_Witness ==
    \E s \in Sinks : \E t1, t2 \in inFlight[s] :
        /\ t1[1] # t2[1]
        /\ Count(received[s], t1) = 1
        /\ Count(received[s], t2) = 1

\* C9: every subscriber that was in the set when an event's publication was
\* entered, whose filter matches and whose client is reading, eventually
\* holds the event's frame (or its client stops), also while the send to
\* another subscriber never completes.
C9_BlockedSendDelaysNoOther ==
    \A t \in Tags : \A b \in Sinks :
        ( /\ Entered(t)
          /\ b \in subsAtEntry[t]
          /\ Matches(filt[b], EventOfTag(t))
          /\ sink[b] = "up" )
            ~> (Got(b, t) \/ sink[b] # "up")

\* C10: disconnect is idempotent, leaves the set as it is for a sink that is
\* not in it, and connect followed by disconnect restores connection_count.
C10_DisconnectIdempotent ==
    \A ws \in Sinks :
        LET once == DisconnectList(connections, ws)
        IN  /\ DisconnectList(once, ws) = once
            /\ ws \notin Members(connections) => once = connections
            /\ ws \notin Members(once)
            /\ wpc[ws] = "new" =>
                  \A fc \in FilterSet :
                      Len(DisconnectList(ConnectList(connections, ws, fc), ws))
                          = Len(connections)

\* disconnect has run for a sink that was no longer in the set, beside
\* another subscriber.
C10_Witness ==
    \E s \in Sinks :
        /\ nullDisc[s]
        /\ connections # << >>

\* C11: once a sink's endpoint task has terminated the sink is not in the
\* subscriber set; over its lifetime its entry is removed exactly once, by
\* the first disconnect call that finds it, and every disconnect call for a
\* sink that is not in the set leaves the set as it is.
C11_RemovedExactlyOnce ==
    \A s \in Sinks :
        /\ removals[s] <= 1
        /\ wpc[s] = "closed" =>
              (s \notin Members(connections) /\ removals[s] = 1)
        /\ (wpc[s] # "new" /\ s \notin Members(connections)) => removals[s] = 1
        /\ nullDisc[s] => (s \notin Members(connections) /\ removals[s] = 1)
        /\ s \notin Members(connections) => ~Removed(connections, s)

\* A sink was evicted after a send to it raised and its endpoint's finally
\* clause has run afterwards; another sink ended through a failed welcome.
C11_Witness ==
    \E s, s2 \in Sinks :
        /\ wpc[s] = "closed" /\ welcome[s] = "sent"
        /\ nullDisc[s]
        /\ \E t \in Tags : s \in failedTo[t]
        /\ removals[s] = 1
        /\ wpc[s2] = "closed" /\ welcome[s2] = "failed"

\* C12: a sink whose welcome frame could not be serialized is closed with
\* code 4500, its endpoint never waits in the receive loop and is sent no
\* welcome frame, and when the endpoint has returned the sink is not in the
\* subscriber set.
C12_WelcomeFailureCloses ==
    \A s \in Sinks :
        welcome[s] = "failed" =>
            /\ closeCode[s] = CloseInternalError
            /\ wpc[s] \in {"closing", "closed"}
            /\ Count(received[s], Welcome) = 0
            /\ wpc[s] = "closed" => s \notin Members(connections)

\* The endpoint of a sink whose welcome failed has returned while another
\* subscriber stays in the set.
C12_Witness ==
    \E s \in Sinks :
        /\ welcome[s] = "failed"
        /\ wpc[s] = "closed"
        /\ closeCode[s] = CloseInternalError
        /\ removals[s] = 1
        /\ connections # << >>

\* The accepted format of a conversation id: a UUID4 in lower case.
Uuid4Format(id) ==
    /\ Len(Chars(id)) = Uuid4Len
    /\ \A i \in 1..Uuid4Len : Chars(id)[i] \in Uuid4Class(i)

\* C13: a connection request whose conversation id is not of the accepted
\* format is closed with code 4400 before websocket.accept() runs; its sink
\* is in no subscriber set and no manager exists for its id.
C13_InvalidRequestRejected ==
    /\ \A h \in Sinks :
          (lpc[h] # "new" /\ ~Uuid4Format(path_conversation_id[h])) =>
              /\ lcloseCode[h] = CloseInvalidRequest
              /\ ~laccepted[h]
              /\ \A m \in DOMAIN active_connections :
                    h \notin active_connections[m]
              /\ conversation_managers[path_conversation_id[h]] = 0
    /\ \A s \in Sinks :
          ( /\ wpc[s] # "new"
            /\ filt[s].conversation_id # None
            /\ ~Uuid4Format(filt[s].conversation_id) ) =>
              /\ closeCode[s] = CloseInvalidRequest
              /\ s \notin Members(connections)

\* Reading the registry's history.
DictGet(d, k) == (CHOOSE e \in Range(d) : e.k = k).v
RegistrationsOf(k) ==
    { i \in DOMAIN registrations : registrations[i].conversation_id = k }
FirstSeen(k) == registrations[Min(RegistrationsOf(k))].at
LastSeen(k) ==
    registrations[CHOOSE i \in RegistrationsOf(k) :
                      \A j \in RegistrationsOf(k) : j <= i].at
LastRegisterAt ==
    IF registrations = << >> THEN 0 ELSE registrations[Len(registrations)].at
ReadsConversations == lastCall.op \in {"get_conversation_ids", "get_filter_options"}
ReadsWorkforces == lastCall.op \in {"get_workforce_names", "get_filter_options"}

\* C14: every value a read returns was stored with a last-seen instant
\* strictly greater than now - ttl, now being the instant the read took from
\* the clock; a value stored with last-seen = now - ttl is not returned.
C14_ReturnedWithinTtl ==
    /\ \A i \in DOMAIN lastCall.conversation_ids :
          /\ InDict(lastCall.conv_before, lastCall.conversation_ids[i])
          /\ DictGet(lastCall.conv_before, lastCall.conversation_ids[i])
                > lastCall.at - ttl
    /\ \A i \in DOMAIN lastCall.workforce_names :
          /\ InDict(lastCall.work_before, lastCall.workforce_names[i])
          /\ DictGet(lastCall.work_before, lastCall.workforce_names[i])
                > lastCall.at2 - ttl
    /\ ReadsConversations =>
          \A e \in Range(lastCall.conv_before) :
              e.v = lastCall.at - ttl
                  => e.k \notin Range(lastCall.conversation_ids)
    /\ ReadsWorkforces =>
          \A e \in Range(lastCall.work_before) :
              e.v = lastCall.at2 - ttl
                  => e.k \notin Range(lastCall.workforce_names)

\* A read found one id stored exactly ttl ago and one stored later, and
\* returned only the later one.
C14_Witness ==
    /\ lastCall.op = "get_conversation_ids"
    /\ \E e1, e2 \in Range(lastCall.conv_before) :
          /\ e1.v = lastCall.at - ttl
          /\ e2.v > lastCall.at - ttl
          /\ lastCall.conversation_ids = << e2.k >>

\* C15: a read made when no register_event call has happened for at least
\* ttl returns no conversation id, and get_stats then counts none.
C15_IdleTtlEmpties ==
    (lastCall.at - LastRegisterAt >= ttl) =>
        /\ ReadsConversations => lastCall.conversation_ids = << >>
        /\ lastCall.op = "get_stats" => lastCall.conversation_ids_count = 0

\* get_stats ran ttl or more after the last registration, found ids stored
\* and counted none.
C15_Witness ==
    /\ lastCall.op = "get_stats"
    /\ lastCall.conv_before # << >>
    /\ lastCall.at - LastRegisterAt >= ttl
    /\ lastCall.conversation_ids_count = 0

\* C16: registering a key that is still within its ttl leaves the length of
\* get_conversation_ids() as it was, and a key is returned by every read
\* made less than ttl after its latest registration, however long ago its
\* first registration was.
C16_ReRegisterRefreshes ==
    /\ ( /\ lastCall.op = "register_event"
          /\ InDict(cleanup(lastCall.conv_before, lastCall.at), lastCall.arg) )
        => Len(sorted(DictKeys(cleanup(conversation_ids, lastCall.at))))
             = Len(sorted(DictKeys(cleanup(lastCall.conv_before, lastCall.at))))
    /\ \A k \in RegConvIds :
          ( /\ ReadsConversations
            /\ RegistrationsOf(k) # {}
            /\ lastCall.at < LastSeen(k) + ttl )
          => k \in Range(lastCall.conversation_ids)

\* A key registered twice within ttl is returned by a read made ttl or more
\* after its first registration.
C16_Witness ==
    \E k \in RegConvIds :
        /\ ReadsConversations
        /\ Cardinality(RegistrationsOf(k)) >= 2
        /\ LastSeen(k) < FirstSeen(k) + ttl
        /\ lastCall.at >= FirstSeen(k) + ttl
        /\ lastCall.at < LastSeen(k) + ttl
        /\ k \in Range(lastCall.conversation_ids)

\* C17: the lists the reads return, and so the two lists of GET
\* /api/filters, are in strictly ascending order of str, hence without
\* duplicates.
C17_SortedNoDuplicates ==
    /\ \A i, j \in DOMAIN lastCall.conversation_ids :
          i < j => StrLess(lastCall.conversation_ids[i],
                           lastCall.conversation_ids[j])
    /\ \A i, j \in DOMAIN lastCall.workforce_names :
          i < j => StrLess(lastCall.workforce_names[i],
                           lastCall.workforce_names[j])

\* GET /api/filters returned two ids and two names, neither list in the
\* order in which the values had been registered.
C17_Witness ==
    /\ lastCall.op = "get_filter_options"
    /\ Len(lastCall.conversation_ids) = 2
    /\ Len(lastCall.workforce_names) = 2
    /\ lastCall.conversation_ids # DictKeys(lastCall.conv_before)
    /\ lastCall.workforce_names # DictKeys(lastCall.work_before)

\* What the requests answered so far have ingested.
IngestedEvents ==
    UNION { Range(batch[r]) : r \in { q \in Requests : rpc[q] = "done" } }
IngestedConversations == { e.conversation_id : e \in IngestedEvents }
IngestedWorkforces ==
    { e.workforce_name : e \in { x \in IngestedEvents : Truthy(x.workforce_name) } }

\* C18: while everything ingested is younger than ttl, GET /api/filters
\* returns exactly the conversation ids and the non-empty workforce names of
\* the events of the requests answered so far, and GET /api/filters/stats
\* their numbers.
C18_IngestedAreRegistered ==
    clock < ttl =>
        /\ Range(sorted(DictKeys(cleanup(conversation_ids, clock))))
              = IngestedConversations
        /\ Range(sorted(DictKeys(cleanup(workforce_names, clock))))
              = IngestedWorkforces
        /\ Len(cleanup(conversation_ids, clock))
              = Cardinality(IngestedConversations)
        /\ Len(cleanup(workforce_names, clock))
              = Cardinality(IngestedWorkforces)

\* Reading a span as the client sent it.
SentValues(sp, key) ==
    { sp.attributes[i].value :
        i \in { j \in DOMAIN sp.attributes : sp.attributes[j].key = key } }
FlagIsTrue(sp) ==
    AnyValue("bool_value", "True")
        \in SentValues(sp, "agent_communication_dashboard")
MissingOrEmpty(sp, key) ==
    SentValues(sp, key) \subseteq { AnyValue("string_value", "") }

\* C19: a span without the attribute agent_communication_dashboard = true
\* (absent, false, or a value that is not a boolean) produces no event.
C19_NoFlagNoEvent ==
    \A i \in DOMAIN span :
        ~FlagIsTrue(span[i]) => spanEvent = << >>

\* C20: a span whose conversation_id or agent_name is missing or the empty
\* string produces no event, whatever its flag, name and start instant.
C20_MissingIdentityNoEvent ==
    \A i \in DOMAIN span :
        ( \/ MissingOrEmpty(span[i], "conversation_id")
          \/ MissingOrEmpty(span[i], "agent_name") )
            => spanEvent = << >>

\* A span with the flag set to true, a recognized name, a start instant
\* that converts and an agent name, but an empty conversation_id, was
\* processed and produced no event.
C20_Witness ==
    \E i \in DOMAIN span :
        /\ FlagIsTrue(span[i])
        /\ determine_event_type(span[i].name) # None
        /\ convert_timestamp_to_iso(span[i].start_time_unix_nano) # << >>
        /\ SentValues(span[i], "conversation_id")
              = { AnyValue("string_value", "") }
        /\ SentValues(span[i], "agent_name") = { AnyValue("string_value", "a1") }
        /\ spanEvent = << >>

\* The table of the classifier as the specification gives it.
PrefixTable ==
    { << "before_agent", "agent_start" >>, << "after_agent", "agent_end" >>,
      << "before_model", "llm_call_start" >>, << "before_llm", "llm_call_start" >>,
      << "after_model", "llm_call_end" >>, << "after_llm", "llm_call_end" >>,
      << "on_model_error", "llm_call_error" >>,
      << "before_tool", "tool_call_start" >>, << "after_tool", "tool_call_end" >>,
      << "on_tool_error", "tool_call_error" >> }

TableKind(base) ==
    IF \E r \in PrefixTable : r[1] = base
    THEN (CHOOSE r \in PrefixTable : r[1] = base)[2]
    ELSE None

\* The rows of the table whose prefix the name starts with, letter case
\* apart.
MatchingRows(cs) ==
    { r \in PrefixTable : StartsWith(Lower(cs), Chars(r[1])) }

\* C24: the classifier gives a name that starts with a prefix of the table,
\* in any letter case, the kind of that prefix, and every other name no
\* kind; at most one row of the table matches a name, so the order in which
\* the prefixes are tested cannot change the result.
C24_ClassifierTable ==
    /\ classKind =
          IF classInput.form \in { "plain", "suffixed" }
          THEN TableKind(classInput.base) ELSE None
    /\ Cardinality(MatchingRows(className)) <= 1

\* A name in upper case followed by more text was classified by the prefix
\* the chain tests last.
C24_Witness ==
    /\ classInput = [base |-> "after_agent", case |-> "upper", form |-> "suffixed"]
    /\ className[1] = "A"
    /\ classKind = "agent_end"

\* Reading the call of a factory.
FactoryKeys == { factoryIn.attributes[i].k : i \in DOMAIN factoryIn.attributes }
FactoryValue(key) ==
    (CHOOSE a \in Range(factoryIn.attributes) : a.k = key).v
ToolNameIs(name) ==
    "tool_name" \in FactoryKeys /\ FactoryValue("tool_name") = Str(name)

\* The keys in use that start with "args.".
ArgKeys == { "args.request", "args.city", "args.agent_name", "args." }

\* The tool call is an agent invocation as the claim defines it.
AgentInvocation ==
    \/ ToolNameIs("transfer_to_agent")
    \/ FactoryKeys \cap ArgKeys = { "args.request" }

\* C25: a before_tool / after_tool span becomes invoke_agent_start /
\* invoke_agent_end exactly when its tool_name is transfer_to_agent or its
\* only args.* key is args.request, and tool_call_start / tool_call_end
\* otherwise.
C25_AgentToolCall ==
    \A e \in Range(factoryOut.event) :
        factoryIn.name \in { "before_tool", "after_tool" } =>
            e.event_type =
                IF factoryIn.name = "before_tool"
                THEN (IF AgentInvocation THEN "invoke_agent_start"
                      ELSE "tool_call_start")
                ELSE (IF AgentInvocation THEN "invoke_agent_end"
                      ELSE "tool_call_end")

\* A call of a tool other than transfer_to_agent with args.request alone
\* became an agent invocation.
C25_Witness ==
    /\ factoryIn.name = "before_tool"
    /\ ToolNameIs("get_weather")
    /\ FactoryKeys = { "tool_name", "args.request" }
    /\ \E e \in Range(factoryOut.event) : e.event_type = "invoke_agent_start"

\* C26: the invoked agent of an agent invocation is args.agent_name (or the
\* empty string) for transfer_to_agent, and the tool_name for a call of the
\* single-argument pattern.
C26_InvokedAgent ==
    \A e \in Range(factoryOut.event) :
        e.event_type \in { "invoke_agent_start", "invoke_agent_end" } =>
            e.invoked_agent =
                IF ToolNameIs("transfer_to_agent")
                THEN (IF "args.agent_name" \in FactoryKeys
                      THEN FactoryValue("args.agent_name") ELSE Str(""))
                ELSE e.tool_call.tool_name

\* What json.loads makes of the texts in use that are JSON; the other texts
\* in use are not JSON.
ParsedTexts ==
    { << "{\"a\": 1}", PyValue("dict", "{\"a\": 1}") >>,
      << "[1, 2]", PyValue("list", "[1, 2]") >>,
      << "\"ok\"", Str("ok") >>,
      << "7", PyValue("int", "7") >>,
      << " null ", PyNone >> }
IsJson(text) == \E p \in ParsedTexts : p[1] = text
ParsedText(text) == (CHOOSE p \in ParsedTexts : p[1] = text)[2]

\* C27: in a tool_call_end or invoke_agent_end event the response has the
\* keys and values extract_tool_response gave it, but for a text that is a
\* str: that is replaced by its JSON value when it is JSON, and left as it
\* is when it is not.
C27_TextUnwrapped ==
    \A e \in Range(factoryOut.event) :
        e.event_type \in { "tool_call_end", "invoke_agent_end" } =>
            LET original == extract_tool_response(factoryIn.attributes)
            IN  /\ DictKeys(e.response) = DictKeys(original)
                /\ \A k \in Range(DictKeys(original)) :
                     LET was == DictGetValue(original, k)
                         is == DictGetValue(e.response, k)
                     IN  IF k = "text" /\ was.type = "str" /\ IsJson(was.repr)
                         THEN is = ParsedText(was.repr)
                         ELSE is = was

\* A response whose text was JSON came out with the parsed value, next to a
\* status whose text is JSON as well and was left alone.
C27_Witness ==
    \E e \in Range(factoryOut.event) :
        /\ e.event_type = "invoke_agent_end"
        /\ InDict(e.response, "text")
        /\ DictGetValue(e.response, "text").type = "dict"
        /\ InDict(e.response, "status")
        /\ DictGetValue(e.response, "status") = Str("200")

\* C23 as stated: the event_type values of all events ever made are among
\* nine strings.
C23_NineEventTypes == Cardinality(typesSeen) <= 9

\* The ten values BaseEvent documents.
EventTypes ==
    { "agent_start", "agent_end", "llm_call_start", "llm_call_end",
      "llm_call_error", "tool_call_start", "tool_call_end", "tool_call_error",
      "invoke_agent_start", "invoke_agent_end" }

\* C23, amended: the event_type of every event is one of ten strings, the
\* eight kinds of the classifier and the two agent invocations.
C23_TenEventTypes ==
    /\ typesSeen \subseteq EventTypes
    /\ \A e \in Range(factoryOut.event) : e.event_type \in EventTypes

\* Events of all ten values have been made.
C23_Witness == typesSeen = EventTypes

\* C22: no call of _process_single_span raises: the span yields an event or
\* is skipped.
C22_NeverRaises == spanError = ""

\* The places of the spans of the request, and their order in the
\* traversal.
SpanPlaces ==
    { << r, s, p >> \in (1..MaxResources) \X (1..MaxScopes) \X (1..MaxSpans) :
        /\ r \in DOMAIN export_request
        /\ s \in DOMAIN export_request[r]
        /\ p \in DOMAIN export_request[r][s] }
PlaceBefore(a, b) ==
    \/ a[1] < b[1]
    \/ a[1] = b[1] /\ a[2] < b[2]
    \/ a[1] = b[1] /\ a[2] = b[2] /\ a[3] < b[3]

\* C21: the list preprocess_spans returns has one event for each of some
\* spans of the request, no span twice, so it is no longer than the request
\* has spans, and the events are in the order of their spans in the
\* traversal.
C21_AtMostOnePerSpanInOrder ==
    bpc = "returned" =>
        /\ Len(events) = Len(eventSpans)
        /\ Len(events) <= Cardinality(SpanPlaces)
        /\ \A i \in DOMAIN events :
             /\ eventSpans[i] \in SpanPlaces
             /\ << events[i] >> =
                  process_single_span(SpanAt(export_request, eventSpans[i])).event
        /\ \A i, j \in DOMAIN events :
             i < j => PlaceBefore(eventSpans[i], eventSpans[j])

\* A request of two resource_spans came back with fewer events than spans,
\* an event of the second resource after one of the first.
C21_Witness ==
    /\ bpc = "returned"
    /\ Len(export_request) = 2
    /\ Len(events) = 2
    /\ Cardinality(SpanPlaces) > 2
    /\ eventSpans[1][1] = 1
    /\ eventSpans[2][1] = 2
    /\ events[1].event_type # events[2].event_type

\* The request answered, and what its headers ask for.
Answered == hpc = "responded"
UnsupportedTypes == { "text/plain", "" }
JsonTypes == { "application/json", "Application/JSON; charset=utf-8" }
GzipEncodings == { "gzip", "GZIP" }
TheRequest == http_request[1]
\* the body comes through the gzip layer
Decompresses ==
    TheRequest.content_encoding \in GzipEncodings => TheRequest.body.wrap = "gzip"
\* the format of the bytes behind the gzip layer, "" if they are still a
\* gzip stream
FormatParsed ==
    IF TheRequest.content_encoding \notin GzipEncodings
          /\ TheRequest.body.wrap = "gzip"
    THEN ""
    ELSE TheRequest.body.format
FormatAsked ==
    IF TheRequest.content_type \in JsonTypes THEN "json"
    ELSE IF TheRequest.content_type \in UnsupportedTypes THEN "" ELSE "protobuf"

C29_MalformedBody400 ==
    Answered /\ Decompresses /\ FormatAsked # "" /\ FormatParsed # FormatAsked =>
        /\ http_response.status_code = 400
        /\ distributed = << >>

\* C30: a request that passes content negotiation, decompression and
\* parsing is answered 200.
C30_ParsedRequest200 ==
    Answered /\ Decompresses /\ FormatAsked # "" /\ FormatParsed = FormatAsked =>
        http_response.status_code = 200

\* What one register_event call may do to a map: the entry of the key is
\* there with the instant of the call, and every other entry is as it was.
OnlySet(before, after, key, at) ==
    /\ \A e \in Range(before) : e.k # key => e \in Range(after)
    /\ \A e \in Range(after) : e.k # key => e \in Range(before)
    /\ \A e \in Range(after) : e.k = key => e.v = at
    /\ InDict(after, key)
    /\ Len(after) = Cardinality({ e.k : e \in Range(after) })
\* The keys of a map that are not expired at an instant.
Fresh(d, now) == { e.k : e \in { x \in Range(d) : x.v > now - ttl } }
Stale(d, now) == { e.k : e \in { x \in Range(d) : x.v <= now - ttl } }
LastRegistration == registrations[Len(registrations)]

\* C40: register_event removes no entry and changes only the instants of
\* the keys it is given, leaving workforce_names alone when workforce_name is
\* None or empty, so expired entries stay in the maps until a read; a read
\* removes exactly the expired entries and returns none of them.
C40_LazyEviction ==
    /\ lastCall.op = "register_event" =>
          /\ OnlySet(lastCall.conv_before, conversation_ids,
                     LastRegistration.conversation_id, LastRegistration.at)
          /\ IF Truthy(LastRegistration.workforce_name)
             THEN OnlySet(lastCall.work_before, workforce_names,
                          LastRegistration.workforce_name, LastRegistration.at)
             ELSE workforce_names = lastCall.work_before
    /\ lastCall.op \in { "get_conversation_ids", "get_workforce_names",
                         "get_stats", "get_filter_options" } =>
          /\ Range(DictKeys(conversation_ids)) =
                Fresh(lastCall.conv_before, lastCall.at2)
          /\ Range(DictKeys(workforce_names)) =
                Fresh(lastCall.work_before, lastCall.at2)
    /\ ReadsConversations =>
          Range(lastCall.conversation_ids) \cap Stale(lastCall.conv_before, lastCall.at) = {}
    /\ ReadsWorkforces =>
          Range(lastCall.workforce_names) \cap Stale(lastCall.work_before, lastCall.at2) = {}
    /\ lastCall.op = "get_stats" =>
          /\ lastCall.conversation_ids_count =
                Cardinality(Fresh(lastCall.conv_before, lastCall.at))
          /\ lastCall.workforce_names_count =
                Cardinality(Fresh(lastCall.work_before, lastCall.at))

\* register_event was called for another key while an expired conversation
\* id and an expired workforce name were stored, and both are still stored.
C40_Witness ==
    /\ lastCall.op = "register_event"
    /\ ~Truthy(LastRegistration.workforce_name)
    /\ \E e \in Range(conversation_ids) :
          e.v <= clock - ttl /\ e.k # LastRegistration.conversation_id
    /\ \E e \in Range(workforce_names) : e.v <= LastRegistration.at - ttl

\* The span at a place of the request, and whether its start instant is
\* one the conversion fails on.
SpanOf(at) == export_request[at[1]][at[2]][at[3]]
Unconvertible(sp) == sp.start_time_unix_nano > TIME_T_MAX_YEAR
Named(sp) == sp.name \in { "before_agent", "AFTER_TOOL" }

\* C39: in a batch with a span whose start instant cannot be converted,
\* preprocess_spans raises nothing, that span has no event, and every other
\* span has the event it has on its own, with its own instant, in the order
\* of the spans.
C39_UnconvertibleDropped ==
    bpc = "returned" /\ (\E at \in SpanPlaces : Unconvertible(SpanOf(at))) =>
        /\ batchError = ""
        /\ \A at \in SpanPlaces :
              Unconvertible(SpanOf(at)) => at \notin Range(eventSpans)
        /\ \A at \in SpanPlaces :
              ~Unconvertible(SpanOf(at)) /\ Named(SpanOf(at)) =>
                  \E i \in DOMAIN events :
                      /\ eventSpans[i] = at
                      /\ events[i].timestamp =
                            [year |-> SpanOf(at).start_time_unix_nano, zone |-> "Z"]
                      /\ events[i].event_type =
                            IF SpanOf(at).name = "before_agent"
                            THEN "agent_start" ELSE "tool_call_end"
        /\ \A i, j \in DOMAIN eventSpans :
              i < j => PlaceBefore(eventSpans[i], eventSpans[j])
        /\ Len(events) = Len(eventSpans)

\* A span that cannot be converted stood between two spans of one
\* scope_spans and another resource_spans, and both gave their events.
C39_Witness ==
    /\ bpc = "returned"
    /\ Len(export_request) = 2
    /\ Len(export_request[1]) = 1
    /\ Len(export_request[1][1]) = 2
    /\ ~Unconvertible(export_request[1][1][1])
    /\ Unconvertible(export_request[1][1][2])
    /\ eventSpans = << << 1, 1, 1 >>, << 2, 1, 1 >> >>
    /\ events[1].event_type = "tool_call_end"
    /\ events[2].event_type = "agent_start"

\* Whether the query sets a parameter, and to what.
QuerySets(key) == \E i \in DOMAIN query_params : query_params[i].k = key
QueryValue(key) == query_params[CHOOSE i \in DOMAIN query_params : query_params[i].k = key].v

\* C32: an event passes the filter of a connection only if it equals every
\* parameter the query sets: with workforce set, the event's workforce_name
\* is that value, so it is not absent; with both set, it equals both.
C32_SetFieldMustEqual ==
    matched = "True" =>
        /\ QuerySets("workforce") =>
              /\ matchEvent[1].workforce_name # None
              /\ matchEvent[1].workforce_name = QueryValue("workforce")
        /\ QuerySets("conversation_id") =>
              matchEvent[1].conversation_id = QueryValue("conversation_id")

\* The query sets both parameters, and the event that equals both passes.
C32_Witness ==
    /\ matched = "True"
    /\ QuerySets("workforce")
    /\ QuerySets("conversation_id")
    /\ matchEvent[1] = [conversation_id |-> "c2", workforce_name |-> "w1"]

\* C33: a frame of a client whose connection is up leaves the subscriber
\* in the subscriber set with the filter of its connect, its endpoint in
\* the receive loop.
C33_FramesChangeNothing ==
    \A s \in Sinks :
        frameSeen[s] # "none" /\ sink[s] = "up" =>
            /\ wpc[s] = "live"
            /\ \E i \in DOMAIN connections :
                  connections[i] = [ws |-> s, fc |-> filt[s]]

\* C35: a send_message call calls send_text only on sinks that were in the
\* subscriber set when the call was entered; a sink that connects while the
\* call is suspended is not sent the event of that call.
C35_OnlyEntrySubscribers ==
    \A t \in Tags : \A i \in DOMAIN attempts[t] :
        attempts[t][i] \in subsAtEntry[t]

\* C36: once disconnect(ws) has returned, send_text is called on ws only by
\* a send_message call that was in progress before (ws was subscribed when
\* it was entered, or connected during it), that send raises, and a send
\* that raises is noted by the call, which goes on or returns.
C36_NoSendAfterDisconnect ==
    [][ /\ \A s \in Sinks : \A t \in Tags :
              ( /\ DisconnectReturned(s)
                /\ Count(attempts'[t], s) > Count(attempts[t], s) ) =>
                  /\ t \in ActiveTags
                  /\ s \in subsAtEntry[t] \/ t \in inFlight[s]
                  /\ \E r \in Requests :
                        /\ rpc'[r] = "sending"
                        /\ websocket'[r] = s
                        /\ sendRes'[r] = "fail"
        /\ \A r \in Requests :
              ( /\ Active(r)
                /\ sendRes[r] = "fail"
                /\ << pos'[r], idx'[r], rpc'[r] >> # << pos[r], idx[r], rpc[r] >> )
                  => /\ websocket[r] \in failedTo'[CurTag(r)]
                     /\ rpc'[r] \in { "sending", "done" } ]_vars

\* A call has returned that called send_text on a sink whose disconnect had
\* returned before; the send raised, and the call had sent the event to
\* another sink before.
C36_Witness ==
    \E t \in Tags :
        /\ Returned(t)
        /\ staleSends[t] # {}
        /\ staleSends[t] \subseteq failedTo[t]
        /\ \E s \in Sinks : Got(s, t)

\* C37: on the conversation-path surface, whenever a websocket is in the
\* active_connections of a manager object, that object is the one stored in
\* conversation_managers under the websocket's conversation id.
C37_ConnectedIsReachable ==
    \A h \in Sinks : \A mgr \in DOMAIN active_connections :
        h \in active_connections[mgr] =>
            conversation_managers[path_conversation_id[h]] = mgr

\* C38: when the finally clause of the conversation-path endpoint finds its
\* manager empty and deletes conversation_managers[conversation_id], the key
\* is in the dict and the manager stored under it has no active connection.
C38_CleanupDeletesOwnEmptyManager ==
    [][ \A h \in Sinks :
          ( /\ lpc[h] = "live"
            /\ lpc'[h] = "closed"
            /\ active_connections'[manager[h]] = {} ) =>
              /\ conversation_managers[path_conversation_id[h]] # 0
              /\ active_connections'[
                    conversation_managers[path_conversation_id[h]]] = {} ]_vars

\* C34: a send_message call of the conversation-path manager does not fail
\* when connects and disconnects on the manager run while it waits in
\* send_text, and when it returns it has called send_text on every
\* websocket that was in active_connections from its entry to its return.
C34_SetChurnTolerated ==
    /\ lcall.pc # "RuntimeError"
    /\ lcall.pc = "returned" => lcall.present \subseteq lcall.sent

\* The part index a text or a tool name of the inputs stands for.
PartIndex(value) ==
    CASE value.repr = "0" -> 0
      [] value.repr = "1" -> 1
      [] value.repr = "2" -> 2
      [] value.repr = "3" -> 3

\* The parts of the content an extractor returned.
EmittedParts ==
    IF cpc = "extract_llm_request_content" THEN llm_content.content
    ELSE IF cpc = "extract_llm_response_content" THEN llm_content.parts
    ELSE << >>

\* C31: in the content an extractor returns, the text parts are in ascending
\* order of their part index, and so are the tool responses (request) and
\* the tool calls (response), in whatever order the attributes are listed.
C31_AscendingPartIndex ==
    \A i, j \in DOMAIN EmittedParts :
        i < j =>
            /\ ( /\ EmittedParts[i].class = "TextContent"
                 /\ EmittedParts[j].class = "TextContent" )
                  => PartIndex(EmittedParts[i].text)
                        < PartIndex(EmittedParts[j].text)
            /\ ( /\ EmittedParts[i].class # "TextContent"
                 /\ EmittedParts[j].class # "TextContent" )
                  => PartIndex(EmittedParts[i].tool_name)
                        < PartIndex(EmittedParts[j].tool_name)

=============================================================================
